---------------------------- MODULE Spec2Model ----------------------------
(***************************************************************************)
(* Model of the ingestion-and-persistence coordinator of the judicial      *)
(* monitor (app/services/db_service.py), of the relational store it writes *)
(* (app/models/database.py) and of the keyword classifier                  *)
(* (app/services/ai_service.py).                                           *)
(*                                                                         *)
(* A table is the sequence of its rows in insertion order; the primary key *)
(* of a row is its position (autoincrement, no row is ever deleted).  A    *)
(* Python value is a record tagged with its type, so that None, "" and a   *)
(* missing dictionary key stay three different things.  A dictionary is a  *)
(* function from its keys to values.  A string the code looks into (a      *)
(* date, an action label) is a sequence of characters; a string the code   *)
(* only stores and compares is an atom.                                    *)
(***************************************************************************)
EXTENDS Integers, Sequences, FiniteSets, TLC

VARIABLES
    empresas,      \* table "empresas"
    procesos,      \* table "procesos"
    actuaciones,   \* table "actuaciones"
    documentos,    \* table "documentos"
    now,           \* the reading of datetime.now()
    last,          \* the last call: operation, arguments, log line, outcome
    sesiones       \* the calls in progress in the worker processes

vars == <<empresas, procesos, actuaciones, documentos, now, last, sesiones>>
store == <<empresas, procesos, actuaciones, documentos>>

\* Bounds of the model: the last reading of the clock, and the longest list
\* of records one call is given.
MaxClock == 2
MaxBatch == 2

---------------------------------------------------------------------------
(* Python values *)

None == [kind |-> "none"]
Str(s) == [kind |-> "str", s |-> s]
IntV(n) == [kind |-> "int", n |-> n]
Bool(b) == [kind |-> "bool", b |-> b]
List(xs) == [kind |-> "list", xs |-> xs]
DateTime(y, m, d, hh, mi, ss) ==
    [kind |-> "datetime", y |-> y, m |-> m, d |-> d, hh |-> hh, mi |-> mi, ss |-> ss]
Raised(exc) == [kind |-> "raise", exc |-> exc]

\* bool(v): what `if v:` and `not v` test
Truthy(v) ==
    CASE v.kind = "none" -> FALSE
      [] v.kind = "str"  -> Len(v.s) > 0
      [] v.kind = "int"  -> v.n # 0
      [] v.kind = "bool" -> v.b
      [] v.kind = "list" -> Len(v.xs) > 0
      [] OTHER           -> TRUE

\* dict.get(k) and dict.get(k, default)
Get(d, k) == IF k \in DOMAIN d THEN d[k] ELSE None
GetDefault(d, k, default) == IF k \in DOMAIN d THEN d[k] ELSE default

---------------------------------------------------------------------------
(* Strings as sequences of characters *)

Digits == {"0", "1", "2", "3", "4", "5", "6", "7", "8", "9"}

DigitVal(c) ==
    CASE c = "0" -> 0 [] c = "1" -> 1 [] c = "2" -> 2 [] c = "3" -> 3
      [] c = "4" -> 4 [] c = "5" -> 5 [] c = "6" -> 6 [] c = "7" -> 7
      [] c = "8" -> 8 [] c = "9" -> 9

IsDigits(cs) == \A i \in 1..Len(cs) : cs[i] \in Digits

RECURSIVE NumVal(_)
NumVal(cs) ==
    IF Len(cs) = 0 THEN 0
    ELSE 10 * NumVal(SubSeq(cs, 1, Len(cs) - 1)) + DigitVal(cs[Len(cs)])

\* the position of the first c in cs, 0 when there is none
IndexOf(cs, c) ==
    IF \E i \in 1..Len(cs) : cs[i] = c
    THEN CHOOSE i \in 1..Len(cs) : cs[i] = c /\ \A j \in 1..(i - 1) : cs[j] # c
    ELSE 0

\* cs.split(c)[0]
SplitFirst(cs, c) ==
    IF IndexOf(cs, c) = 0 THEN cs ELSE SubSeq(cs, 1, IndexOf(cs, c) - 1)

\* what follows the first c in cs
AfterFirst(cs, c) == SubSeq(cs, IndexOf(cs, c) + 1, Len(cs))

\* sub in cs (Python's substring test)
Contains(cs, sub) ==
    \E i \in 0..(Len(cs) - Len(sub)) : SubSeq(cs, i + 1, i + Len(sub)) = sub

---------------------------------------------------------------------------
(* Dates: DatabaseService.parse_date *)

IsLeap(y) == (y % 4 = 0 /\ y % 100 # 0) \/ y % 400 = 0

DaysInMonth(y, m) ==
    IF m = 2 THEN (IF IsLeap(y) THEN 29 ELSE 28)
    ELSE IF m \in {4, 6, 9, 11} THEN 30 ELSE 31

ValueError == Raised("ValueError")
TypeError == Raised("TypeError")

\* the date of year y, month m, day d, when the calendar has it
Fecha(y, m, d) ==
    IF y >= 1 /\ m \in 1..12 /\ d \in 1..31 /\ d <= DaysInMonth(y, m)
    THEN DateTime(y, m, d, 0, 0, 0)
    ELSE ValueError

\* %Y is four digits, %m and %d one or two digits
StrptimeCampos(ys, ms, ds) ==
    IF /\ Len(ys) = 4 /\ IsDigits(ys)
       /\ Len(ms) \in {1, 2} /\ IsDigits(ms)
       /\ Len(ds) \in {1, 2} /\ IsDigits(ds)
    THEN Fecha(NumVal(ys), NumVal(ms), NumVal(ds))
    ELSE ValueError

\* %d also reads a blank and one digit
DiaSinBlanco(r2) == IF Len(r2) = 2 /\ r2[1] = " " THEN SubSeq(r2, 2, 2) ELSE r2

StrptimeResto(ys, r1) ==
    IF IndexOf(r1, "-") = 0 THEN ValueError
    ELSE StrptimeCampos(ys, SplitFirst(r1, "-"), DiaSinBlanco(AfterFirst(r1, "-")))

\* datetime.strptime(cs, '%Y-%m-%d') on a str: a year, '-', a month, '-', a
\* day, nothing left over, and a day the month has.
Strptime(cs) ==
    IF IndexOf(cs, "-") = 0 THEN ValueError
    ELSE StrptimeResto(SplitFirst(cs, "-"), AfterFirst(cs, "-"))

\* HH:MM:SS
EsHora(t) ==
    /\ Len(t) = 8
    /\ t[3] = ":" /\ t[6] = ":"
    /\ IsDigits(SubSeq(t, 1, 2)) /\ IsDigits(SubSeq(t, 4, 5)) /\ IsDigits(SubSeq(t, 7, 8))
    /\ NumVal(SubSeq(t, 1, 2)) <= 23
    /\ NumVal(SubSeq(t, 4, 5)) <= 59
    /\ NumVal(SubSeq(t, 7, 8)) <= 59

\* the date with the time t of a string of n characters
FechaConHora(date, t, n) ==
    IF date.kind # "datetime" THEN ValueError
    ELSE IF n = 10 THEN date
    ELSE IF EsHora(t)
         THEN DateTime(date.y, date.m, date.d, NumVal(SubSeq(t, 1, 2)),
                       NumVal(SubSeq(t, 4, 5)), NumVal(SubSeq(t, 7, 8)))
         ELSE ValueError

\* datetime.fromisoformat(cs), on the strings every supported interpreter
\* reads alike: YYYY-MM-DD, then nothing, or any one separator and HH:MM:SS.
FromIsoFormat(cs) ==
    IF /\ Len(cs) >= 10
       /\ cs[5] = "-" /\ cs[8] = "-"
       /\ IsDigits(SubSeq(cs, 6, 7)) /\ IsDigits(SubSeq(cs, 9, 10))
    THEN FechaConHora(Strptime(SubSeq(cs, 1, 10)), SubSeq(cs, 12, Len(cs)), Len(cs))
    ELSE ValueError

\* the first of the three attempts that gives a date, None when none does
PrimeraFecha(first, second, third) ==
    IF first.kind = "datetime" THEN first
    ELSE IF second.kind = "datetime" THEN second
    ELSE IF third.kind = "datetime" THEN third
    ELSE None

\* a conversion without the attempt on the text before the first T
parse_date_sin_corte(date_str) ==
    IF ~Truthy(date_str) THEN None
    ELSE IF date_str.kind # "str" THEN TypeError
    ELSE PrimeraFecha(Strptime(date_str.s), ValueError, FromIsoFormat(date_str.s))

\* parse_date(date_str): a datetime, None, or the TypeError strptime raises
\* on an argument that is not a str (only ValueError is caught).
parse_date(date_str) ==
    IF ~Truthy(date_str) THEN None
    ELSE IF date_str.kind # "str" THEN TypeError
    ELSE PrimeraFecha(Strptime(date_str.s), Strptime(SplitFirst(date_str.s, "T")),
                      FromIsoFormat(date_str.s))

\* a call of DatabaseService.parse_date on its own
parse_date_call(date_str) ==
    /\ last' = [op |-> "parse_date", date_str |-> date_str, ret |-> parse_date(date_str)]
    /\ UNCHANGED <<empresas, procesos, actuaciones, documentos, now, sesiones>>

---------------------------------------------------------------------------
(* The store: queries and the uniqueness constraints *)

\* query(...).filter(column == v).first(): the first row whose column is v
\* (None when there is none); `column == None` is IS NULL.
\* a query without its filter: the first row of the table
PrimeraFila(table, col, v) == IF Len(table) = 0 THEN None ELSE table[1]

Matches(table, col, v) == {i \in 1..Len(table) : table[i][col] = v}

First(table, col, v) ==
    IF Matches(table, col, v) = {} THEN None
    ELSE LET i == CHOOSE i \in Matches(table, col, v) :
                      \A j \in Matches(table, col, v) : i <= j
         IN  table[i]

\* a column without a constraint
SinRestriccion(table, col) == TRUE

\* unique=True on a column: no two rows hold the same non-NULL value
Unique(table, col) ==
    \A i, j \in 1..Len(table) :
        (i # j /\ table[i][col] # None) => table[i][col] # table[j][col]

IntegrityError == Raised("IntegrityError")

\* whether a call's outcome is an exception (a row has no exception name)
IsRaised(v) == "exc" \in DOMAIN v


---------------------------------------------------------------------------
(* Rows *)

\* Empresa(nombre=..., tipo_persona=..., nit=...); the creation time, a
\* column default no code reads, is left out
EmpresaRow(pk, datos_empresa) ==
    [id           |-> pk,
     nombre       |-> Get(datos_empresa, "nombre"),
     tipo_persona |-> GetDefault(datos_empresa, "tipo_persona", Str("jur")),
     nit          |-> Get(datos_empresa, "nit")]

\* Proceso(id_proceso_api=..., ...), inserted at time t
ProcesoRow(pk, datos_proceso, empresa_id, t) ==
    [id                     |-> pk,
     id_proceso_api         |-> Get(datos_proceso, "idProceso"),
     llave_proceso          |-> Get(datos_proceso, "llaveProceso"),
     fecha_proceso          |-> parse_date(Get(datos_proceso, "fechaProceso")),
     fecha_ultima_actuacion |-> parse_date(Get(datos_proceso, "fechaUltimaActuacion")),
     despacho               |-> Get(datos_proceso, "despacho"),
     departamento           |-> Get(datos_proceso, "departamento"),
     sujetos_procesales     |-> Get(datos_proceso, "sujetosProcesales"),
     clase_proceso          |-> None,
     tipo_proceso           |-> None,
     subtipo_proceso        |-> None,
     ubicacion_expediente   |-> None,
     es_privado             |-> Bool(FALSE),
     demandantes            |-> None,
     demandados             |-> None,
     resumen_generado       |-> None,
     fecha_consulta         |-> t,
     empresa_id             |-> empresa_id]

\* Actuacion(id_reg_actuacion=..., ...)
ActuacionRow(pk, act_data, proceso_id) ==
    [id               |-> pk,
     id_reg_actuacion |-> Get(act_data, "idRegActuacion"),
     cons_actuacion   |-> Get(act_data, "consActuacion"),
     fecha_actuacion  |-> parse_date(Get(act_data, "fechaActuacion")),
     actuacion        |-> Get(act_data, "actuacion"),
     anotacion        |-> Get(act_data, "anotacion"),
     fecha_inicial    |-> parse_date(Get(act_data, "fechaInicial")),
     fecha_final      |-> parse_date(Get(act_data, "fechaFinal")),
     fecha_registro   |-> parse_date(Get(act_data, "fechaRegistro")),
     con_documentos   |-> GetDefault(act_data, "conDocumentos", Bool(FALSE)),
     proceso_id       |-> proceso_id,
     nivel_urgencia   |-> None,
     tipo_actuacion   |-> None,
     requiere_accion  |-> Bool(FALSE),
     justificacion    |-> None]

UrlTemplate == "https://consultaprocesos.ramajudicial.gov.co:448/api/v2/Descarga/Documento/"

\* f"https://.../Descarga/Documento/{id_reg_documento}"
url_documento(id_reg_documento) == Str(UrlTemplate \o id_reg_documento.s)

\* a row that takes the URL of the record when the record has one
DocumentoRowConUrl(pk, doc_data, actuacion_id) ==
    [id                |-> pk,
     id_reg_documento  |-> Get(doc_data, "idRegDocumento"),
     nombre_documento  |-> Get(doc_data, "nombreDocumento"),
     fecha_documento   |-> parse_date(Get(doc_data, "fechaDocumento")),
     fecha_publicacion |-> parse_date(Get(doc_data, "fechaPublicacion")),
     url_documento     |-> GetDefault(doc_data, "urlDocumento",
                                      url_documento(Get(doc_data, "idRegDocumento"))),
     ruta_local        |-> None,
     actuacion_id      |-> actuacion_id]

\* Documento(id_reg_documento=..., ...)
DocumentoRow(pk, doc_data, actuacion_id) ==
    [id                |-> pk,
     id_reg_documento  |-> Get(doc_data, "idRegDocumento"),
     nombre_documento  |-> Get(doc_data, "nombreDocumento"),
     fecha_documento   |-> parse_date(Get(doc_data, "fechaDocumento")),
     fecha_publicacion |-> parse_date(Get(doc_data, "fechaPublicacion")),
     url_documento     |-> url_documento(Get(doc_data, "idRegDocumento")),
     ruta_local        |-> None,
     actuacion_id      |-> actuacion_id]

\* a constructor call whose parse_date argument raised never returns a row
RowRaised(row, cols) == \E c \in cols : row[c].kind = "raise"

ProcesoDateCols == {"fecha_proceso", "fecha_ultima_actuacion"}
ActuacionDateCols == {"fecha_actuacion", "fecha_inicial", "fecha_final", "fecha_registro"}
DocumentoDateCols == {"fecha_documento", "fecha_publicacion"}

---------------------------------------------------------------------------
(* DatabaseService.guardar_empresa *)

\* a resolution that never looks a party up by its nit
sin_busqueda_por_nit(emp, nit) == None

\* `if nit:` and the query by nit
empresa_por_nit(emp, nit) == IF Truthy(nit) THEN First(emp, "nit", nit) ELSE None

\* an update that takes the nit of every hint that carries one
reemplazar_nit(emp, empresa, nit) ==
    IF Truthy(nit) THEN [emp EXCEPT ![empresa.id].nit = nit] ELSE emp

\* `if nit and not empresa.nit:` and the assignment
actualizar_nit(emp, empresa, nit) ==
    IF Truthy(nit) /\ ~Truthy(empresa.nit)
    THEN [emp EXCEPT ![empresa.id].nit = nit]
    ELSE emp

\* The outcome of guardar_empresa on table emp: the table after the call and
\* what the call returns (a row, or the IntegrityError its commit raises).
guardar_empresa_en(emp, datos_empresa) ==
    LET nombre == Get(datos_empresa, "nombre")
        nit == Get(datos_empresa, "nit")
        porNit == empresa_por_nit(emp, nit)
        porNombre == First(emp, "nombre", nombre)
        actualizada == actualizar_nit(emp, porNombre, nit)
        creada == Append(emp, EmpresaRow(Len(emp) + 1, datos_empresa))
    IN  IF porNit # None THEN [empresas |-> emp, ret |-> porNit]
        ELSE IF porNombre # None
        THEN IF Unique(actualizada, "nit")
             THEN [empresas |-> actualizada, ret |-> actualizada[porNombre.id]]
             ELSE [empresas |-> emp, ret |-> IntegrityError]
        ELSE IF Unique(creada, "nit")
             THEN [empresas |-> creada, ret |-> creada[Len(creada)]]
             ELSE [empresas |-> emp, ret |-> IntegrityError]

guardar_empresa(datos_empresa) ==
    LET out == guardar_empresa_en(empresas, datos_empresa)
    IN  /\ empresas' = out.empresas
        /\ last' = [op |-> "guardar_empresa", datos_empresa |-> datos_empresa,
                    ret |-> out.ret]
        /\ UNCHANGED <<procesos, actuaciones, documentos, now, sesiones>>

---------------------------------------------------------------------------
(* The outcome of one call of the coordinator *)

\* the committed tables
Almacen ==
    [empresas |-> empresas, procesos |-> procesos,
     actuaciones |-> actuaciones, documentos |-> documentos]

\* what a call leaves: the tables, the line it logs, and what it returns
\* or raises
Salida(st, log, ret) == [st |-> st, log |-> log, ret |-> ret]

\* a call that read the clock at t ends with outcome out
efecto(out, call, t) ==
    /\ empresas' = out.st.empresas
    /\ procesos' = out.st.procesos
    /\ actuaciones' = out.st.actuaciones
    /\ documentos' = out.st.documentos
    /\ now' = t
    /\ last' = call @@ [log |-> out.log, ret |-> out.ret]
    /\ UNCHANGED sesiones

---------------------------------------------------------------------------
(* DatabaseService.guardar_proceso *)

\* `if datos_empresa:`
HayEmpresa(datos_empresa) == datos_empresa # None /\ DOMAIN datos_empresa # {}

\* a refresh that also rewrites the fetched text fields of the row
actualizar_proceso_completo(proceso_existente, datos_proceso, t) ==
    [proceso_existente EXCEPT
        !.llave_proceso = Get(datos_proceso, "llaveProceso"),
        !.despacho = Get(datos_proceso, "despacho"),
        !.fecha_ultima_actuacion = parse_date(Get(datos_proceso, "fechaUltimaActuacion")),
        !.fecha_consulta = t]

\* the update of an existing row: the last-action date when it parses, and
\* the time of the query
actualizar_proceso(proceso_existente, datos_proceso, t) ==
    LET fecha_ultima_actuacion == parse_date(Get(datos_proceso, "fechaUltimaActuacion"))
    IN  [proceso_existente EXCEPT
            !.fecha_ultima_actuacion =
                IF Truthy(fecha_ultima_actuacion) THEN fecha_ultima_actuacion ELSE @,
            !.fecha_consulta = t]

\* the branch of a stored process; fecha is what parse_date gave
refrescar_proceso(st, proceso_existente, datos_proceso, fecha, t) ==
    IF fecha.kind = "raise"
    THEN Salida(st, "Actualizando proceso existente", fecha)
    ELSE Salida([st EXCEPT !.procesos[proceso_existente.id] =
                     actualizar_proceso(proceso_existente, datos_proceso, t)],
                "Actualizando proceso existente",
                actualizar_proceso(proceso_existente, datos_proceso, t))

\* `if datos_empresa:` and the call of guardar_empresa
resolver_empresa(emp, datos_empresa) ==
    IF HayEmpresa(datos_empresa) THEN guardar_empresa_en(emp, datos_empresa)
    ELSE [empresas |-> emp, ret |-> None]

\* a reference of 0 where the code leaves empresa_id None
empresa_id_o_cero(empresa) == IF empresa = None THEN IntV(0) ELSE IntV(empresa.id)

\* empresa.id, None without a party
empresa_id_de(empresa) == IF empresa = None THEN None ELSE IntV(empresa.id)

\* Proceso(...), db.add and db.commit, after guardar_empresa left emp
insertar_proceso(st, emp, nuevo_proceso) ==
    IF RowRaised(nuevo_proceso, ProcesoDateCols)
    THEN Salida([st EXCEPT !.empresas = emp.empresas], "Creando nuevo proceso", TypeError)
    ELSE Salida([st EXCEPT !.empresas = emp.empresas,
                           !.procesos = Append(@, nuevo_proceso)],
                "Creando nuevo proceso", nuevo_proceso)

\* the branch of a new process; emp is the outcome of the party's resolution
crear_proceso(st, emp, datos_proceso, t) ==
    IF IsRaised(emp.ret) THEN Salida(st, "Creando nuevo proceso", emp.ret)
    ELSE insertar_proceso(st, emp,
             ProcesoRow(Len(st.procesos) + 1, datos_proceso, empresa_id_de(emp.ret), t))

guardar_proceso_con(st, proceso_existente, datos_proceso, datos_empresa, t) ==
    IF proceso_existente # None
    THEN refrescar_proceso(st, proceso_existente, datos_proceso,
                           parse_date(Get(datos_proceso, "fechaUltimaActuacion")), t)
    ELSE crear_proceso(st, resolver_empresa(st.empresas, datos_empresa), datos_proceso, t)

\* guardar_proceso on tables st; t is the reading of datetime.now()
guardar_proceso_en(st, datos_proceso, datos_empresa, t) ==
    guardar_proceso_con(st, First(st.procesos, "id_proceso_api",
                                  Get(datos_proceso, "idProceso")),
                        datos_proceso, datos_empresa, t)

guardar_proceso(datos_proceso, datos_empresa, t) ==
    /\ t \in now..MaxClock
    /\ efecto(guardar_proceso_en(Almacen, datos_proceso, datos_empresa, t),
              [op |-> "guardar_proceso", datos_proceso |-> datos_proceso,
               datos_empresa |-> datos_empresa], t)

---------------------------------------------------------------------------
(* DatabaseService.guardar_detalle_proceso, guardar_resumen_proceso *)

RECURSIVE JsonItems(_)
JsonItems(xs) ==
    IF Len(xs) = 0 THEN ""
    ELSE IF Len(xs) = 1 THEN "\"" \o xs[1].s \o "\""
    ELSE "\"" \o xs[1].s \o "\", " \o JsonItems(Tail(xs))

\* json.dumps(v) of None, a string or a list of strings: the JSON text
json_dumps(v) ==
    CASE v.kind = "none" -> Str("null")
      [] v.kind = "str"  -> Str("\"" \o v.s \o "\"")
      [] v.kind = "list" -> Str("[" \o JsonItems(v.xs) \o "]")

\* assignments that reset the name lists a record does not carry
actualizar_detalle_total(proceso, detalle) ==
    [proceso EXCEPT
        !.clase_proceso = Get(detalle, "claseProceso"),
        !.tipo_proceso = Get(detalle, "tipoProceso"),
        !.subtipo_proceso = Get(detalle, "subTipoProceso"),
        !.ubicacion_expediente = Get(detalle, "ubicacionExpediente"),
        !.es_privado = GetDefault(detalle, "esPrivado", Bool(FALSE)),
        !.demandantes = IF "demandantes" \in DOMAIN detalle
                        THEN json_dumps(detalle["demandantes"]) ELSE None,
        !.demandados = IF "demandados" \in DOMAIN detalle
                       THEN json_dumps(detalle["demandados"]) ELSE None]

\* the assignments of guardar_detalle_proceso to the row
actualizar_detalle(proceso, detalle) ==
    [proceso EXCEPT
        !.clase_proceso = Get(detalle, "claseProceso"),
        !.tipo_proceso = Get(detalle, "tipoProceso"),
        !.subtipo_proceso = Get(detalle, "subTipoProceso"),
        !.ubicacion_expediente = Get(detalle, "ubicacionExpediente"),
        !.es_privado = GetDefault(detalle, "esPrivado", Bool(FALSE)),
        !.demandantes = IF "demandantes" \in DOMAIN detalle
                        THEN json_dumps(detalle["demandantes"]) ELSE @,
        !.demandados = IF "demandados" \in DOMAIN detalle
                       THEN json_dumps(detalle["demandados"]) ELSE @]

guardar_detalle_con(st, proceso, detalle) ==
    IF proceso = None THEN Salida(st, "No se encontro el proceso", None)
    ELSE Salida([st EXCEPT !.procesos[proceso.id] = actualizar_detalle(proceso, detalle)],
                "", actualizar_detalle(proceso, detalle))

\* guardar_detalle_proceso on tables st
guardar_detalle_proceso_en(st, id_proceso_api, detalle) ==
    guardar_detalle_con(st, First(st.procesos, "id_proceso_api", id_proceso_api), detalle)

guardar_detalle_proceso(id_proceso_api, detalle) ==
    efecto(guardar_detalle_proceso_en(Almacen, id_proceso_api, detalle),
           [op |-> "guardar_detalle_proceso", id_proceso_api |-> id_proceso_api,
            detalle |-> detalle], now)

guardar_resumen_con(st, proceso, resumen) ==
    IF proceso = None THEN Salida(st, "No se encontro el proceso", None)
    ELSE Salida([st EXCEPT !.procesos[proceso.id].resumen_generado = resumen],
                "", [proceso EXCEPT !.resumen_generado = resumen])

\* guardar_resumen_proceso on tables st
guardar_resumen_proceso_en(st, id_proceso_api, resumen) ==
    guardar_resumen_con(st, First(st.procesos, "id_proceso_api", id_proceso_api), resumen)

guardar_resumen_proceso(id_proceso_api, resumen) ==
    efecto(guardar_resumen_proceso_en(Almacen, id_proceso_api, resumen),
           [op |-> "guardar_resumen_proceso", id_proceso_api |-> id_proceso_api,
            resumen |-> resumen], now)

---------------------------------------------------------------------------
(* DatabaseService.guardar_actuaciones *)

\* a branch that refreshes the stored row from the record and the process
actuacion_refrescada(actuacion_existente, act_data, proceso) ==
    [actuacion_existente EXCEPT
        !.cons_actuacion = Get(act_data, "consActuacion"),
        !.anotacion = Get(act_data, "anotacion"),
        !.proceso_id = IntV(proceso.id)]

\* the branch of the loop for a stored action: the row is appended to the
\* result as it is, no field is assigned
actuacion_encontrada(actuacion_existente, act_data, proceso) == actuacion_existente

\* db.commit(): the session writes the rows it holds, those found by a query
\* as the loop left them, then the new rows
commit(tabla, acc) ==
    [i \in 1..Len(tabla) |->
        IF \E k \in 1..Len(acc.guardadas) : acc.guardadas[k].id = i
        THEN LET k == CHOOSE k \in 1..Len(acc.guardadas) :
                          /\ acc.guardadas[k].id = i
                          /\ \A j \in 1..Len(acc.guardadas) :
                                acc.guardadas[j].id = i => j <= k
             IN  acc.guardadas[k]
        ELSE tabla[i]] \o acc.nuevas

\* a loop body that returns the inserted rows only
actuaciones_paso_solo_nuevas(tabla, proceso, act_data, acc) ==
    IF First(tabla, "id_reg_actuacion", Get(act_data, "idRegActuacion")) # None
    THEN acc
    ELSE IF RowRaised(ActuacionRow(Len(tabla) + Len(acc.nuevas) + 1, act_data,
                                   IntV(proceso.id)), ActuacionDateCols)
    THEN [acc EXCEPT !.raised = TRUE]
    ELSE [nuevas    |-> Append(acc.nuevas,
                               ActuacionRow(Len(tabla) + Len(acc.nuevas) + 1,
                                            act_data, IntV(proceso.id))),
          guardadas |-> Append(acc.guardadas,
                               ActuacionRow(Len(tabla) + Len(acc.nuevas) + 1,
                                            act_data, IntV(proceso.id))),
          raised    |-> FALSE]

\* One pass of the loop body, for record act_data.  The queries read the
\* committed table only (the session does not autoflush), so a row added
\* earlier in the same call is not seen.  acc holds the rows to insert, the
\* rows to return and whether a constructor raised.
actuaciones_paso(tabla, proceso, act_data, acc) ==
    LET id_reg_actuacion == Get(act_data, "idRegActuacion")
        actuacion_existente == First(tabla, "id_reg_actuacion", id_reg_actuacion)
        nueva_actuacion == ActuacionRow(Len(tabla) + Len(acc.nuevas) + 1,
                                        act_data, IntV(proceso.id))
    IN  IF actuacion_existente # None
        THEN [acc EXCEPT !.guardadas = Append(@,
                 actuacion_encontrada(actuacion_existente, act_data, proceso))]
        ELSE IF RowRaised(nueva_actuacion, ActuacionDateCols)
        THEN [acc EXCEPT !.raised = TRUE]
        ELSE [nuevas    |-> Append(acc.nuevas, nueva_actuacion),
              guardadas |-> Append(acc.guardadas, nueva_actuacion),
              raised    |-> FALSE]

\* `for act_data in actuaciones:`, left at the first exception
RECURSIVE actuaciones_loop(_, _, _, _)
actuaciones_loop(tabla, proceso, lista, acc) ==
    IF Len(lista) = 0 \/ acc.raised THEN acc
    ELSE actuaciones_loop(tabla, proceso, Tail(lista),
                          actuaciones_paso(tabla, proceso, Head(lista), acc))

EmptyAcc == [nuevas |-> <<>>, guardadas |-> <<>>, raised |-> FALSE]

\* db.commit() and the refresh of the rows, after the loop left acc
guardar_actuaciones_fin(st, acc) ==
    IF acc.raised THEN Salida(st, "", TypeError)
    ELSE IF ~Unique(commit(st.actuaciones, acc), "id_reg_actuacion")
    THEN Salida(st, "", IntegrityError)
    ELSE Salida([st EXCEPT !.actuaciones = commit(st.actuaciones, acc)],
                "", List(acc.guardadas))

guardar_actuaciones_con(st, proceso, lista) ==
    IF proceso = None THEN Salida(st, "No se encontro el proceso", List(<<>>))
    ELSE guardar_actuaciones_fin(st,
             actuaciones_loop(st.actuaciones, proceso, lista, EmptyAcc))

\* guardar_actuaciones on tables st
guardar_actuaciones_en(st, id_proceso_api, lista) ==
    guardar_actuaciones_con(st, First(st.procesos, "id_proceso_api", id_proceso_api),
                            lista)

\* `repetida` tells whether the call before this one was the same call
guardar_actuaciones(id_proceso_api, lista) ==
    efecto(guardar_actuaciones_en(Almacen, id_proceso_api, lista),
           [op |-> "guardar_actuaciones", id_proceso_api |-> id_proceso_api,
            actuaciones |-> lista,
            repetida |-> /\ last.op = "guardar_actuaciones"
                         /\ last.id_proceso_api = id_proceso_api
                         /\ last.actuaciones = lista], now)

---------------------------------------------------------------------------
(* DatabaseService.guardar_clasificacion_actuacion *)

\* assignments that keep a classification the row already has
actualizar_clasificacion_si_falta(actuacion, clasificacion) ==
    IF actuacion.nivel_urgencia # None THEN actuacion
    ELSE [actuacion EXCEPT
             !.nivel_urgencia = Get(clasificacion, "nivel_urgencia"),
             !.tipo_actuacion = Get(clasificacion, "tipo_actuacion"),
             !.requiere_accion = GetDefault(clasificacion, "requiere_accion", Bool(FALSE)),
             !.justificacion = Get(clasificacion, "justificacion")]

actualizar_clasificacion(actuacion, clasificacion) ==
    [actuacion EXCEPT
        !.nivel_urgencia = Get(clasificacion, "nivel_urgencia"),
        !.tipo_actuacion = Get(clasificacion, "tipo_actuacion"),
        !.requiere_accion = GetDefault(clasificacion, "requiere_accion", Bool(FALSE)),
        !.justificacion = Get(clasificacion, "justificacion")]

guardar_clasificacion_con(st, actuacion, clasificacion) ==
    IF actuacion = None THEN Salida(st, "No se encontro la actuacion", None)
    ELSE Salida([st EXCEPT !.actuaciones[actuacion.id] =
                     actualizar_clasificacion(actuacion, clasificacion)],
                "", actualizar_clasificacion(actuacion, clasificacion))

\* guardar_clasificacion_actuacion on tables st
guardar_clasificacion_actuacion_en(st, id_reg_actuacion, clasificacion) ==
    guardar_clasificacion_con(st, First(st.actuaciones, "id_reg_actuacion",
                                        id_reg_actuacion), clasificacion)

\* `encontrada` is the row as the query found it
guardar_clasificacion_actuacion(id_reg_actuacion, clasificacion) ==
    efecto(guardar_clasificacion_actuacion_en(Almacen, id_reg_actuacion, clasificacion),
           [op |-> "guardar_clasificacion_actuacion",
            id_reg_actuacion |-> id_reg_actuacion, clasificacion |-> clasificacion,
            encontrada |-> First(actuaciones, "id_reg_actuacion", id_reg_actuacion)],
           now)

---------------------------------------------------------------------------
(* DatabaseService.guardar_documentos *)

\* the branch of the loop for a stored document: the row as it is
documento_encontrado(documento_existente, doc_data, actuacion) == documento_existente

\* the step of a session that flushes before each query: the query also
\* finds the rows the loop has added
documentos_paso_autoflush(tabla, actuacion, doc_data, acc) ==
    LET id_reg_documento == Get(doc_data, "idRegDocumento")
        documento_existente == First(tabla \o acc.nuevas, "id_reg_documento",
                                     id_reg_documento)
        nuevo_documento == DocumentoRow(Len(tabla) + Len(acc.nuevas) + 1,
                                        doc_data, IntV(actuacion.id))
    IN  IF documento_existente # None
        THEN [acc EXCEPT !.guardadas = Append(@, documento_existente)]
        ELSE IF RowRaised(nuevo_documento, DocumentoDateCols)
        THEN [acc EXCEPT !.raised = TRUE]
        ELSE [nuevas    |-> Append(acc.nuevas, nuevo_documento),
              guardadas |-> Append(acc.guardadas, nuevo_documento),
              raised    |-> FALSE]

documentos_paso(tabla, actuacion, doc_data, acc) ==
    LET id_reg_documento == Get(doc_data, "idRegDocumento")
        documento_existente == First(tabla, "id_reg_documento", id_reg_documento)
        nuevo_documento == DocumentoRow(Len(tabla) + Len(acc.nuevas) + 1,
                                        doc_data, IntV(actuacion.id))
    IN  IF documento_existente # None
        THEN [acc EXCEPT !.guardadas = Append(@,
                 documento_encontrado(documento_existente, doc_data, actuacion))]
        ELSE IF RowRaised(nuevo_documento, DocumentoDateCols)
        THEN [acc EXCEPT !.raised = TRUE]
        ELSE [nuevas    |-> Append(acc.nuevas, nuevo_documento),
              guardadas |-> Append(acc.guardadas, nuevo_documento),
              raised    |-> FALSE]

\* `for doc_data in documentos:`, left at the first exception
RECURSIVE documentos_loop(_, _, _, _)
documentos_loop(tabla, actuacion, lista, acc) ==
    IF Len(lista) = 0 \/ acc.raised THEN acc
    ELSE documentos_loop(tabla, actuacion, Tail(lista),
                         documentos_paso(tabla, actuacion, Head(lista), acc))

\* db.commit() and the refresh of the rows, after the loop left acc
guardar_documentos_fin(st, acc) ==
    IF acc.raised THEN Salida(st, "", TypeError)
    ELSE IF ~Unique(commit(st.documentos, acc), "id_reg_documento")
    THEN Salida(st, "", IntegrityError)
    ELSE Salida([st EXCEPT !.documentos = commit(st.documentos, acc)],
                "", List(acc.guardadas))

guardar_documentos_con(st, actuacion, lista) ==
    IF actuacion = None THEN Salida(st, "No se encontro la actuacion", List(<<>>))
    ELSE guardar_documentos_fin(st,
             documentos_loop(st.documentos, actuacion, lista, EmptyAcc))

\* guardar_documentos on tables st
guardar_documentos_en(st, id_reg_actuacion, lista) ==
    guardar_documentos_con(st, First(st.actuaciones, "id_reg_actuacion",
                                     id_reg_actuacion), lista)

guardar_documentos(id_reg_actuacion, lista) ==
    efecto(guardar_documentos_en(Almacen, id_reg_actuacion, lista),
           [op |-> "guardar_documentos", id_reg_actuacion |-> id_reg_actuacion,
            documentos |-> lista], now)

---------------------------------------------------------------------------
(* AIGenerativeService: the keyword classifier *)

UpperCase ==
    <<"A", "B", "C", "D", "E", "F", "G", "H", "I", "J", "K", "L", "M", "N", "O", "P",
      "Q", "R", "S", "T", "U", "V", "W", "X", "Y", "Z", "Á", "É", "Í", "Ó", "Ú", "Ñ">>
LowerCase ==
    <<"a", "b", "c", "d", "e", "f", "g", "h", "i", "j", "k", "l", "m", "n", "o", "p",
      "q", "r", "s", "t", "u", "v", "w", "x", "y", "z", "á", "é", "í", "ó", "ú", "ñ">>

LowerChar(c) ==
    IF \E i \in 1..Len(UpperCase) : UpperCase[i] = c
    THEN LowerCase[CHOOSE i \in 1..Len(UpperCase) : UpperCase[i] = c]
    ELSE c

\* str.lower()
lower(cs) == [i \in 1..Len(cs) |-> LowerChar(cs[i])]

PalabrasAudiencia ==
    {<<"a", "u", "d", "i", "e", "n", "c", "i", "a">>,
     <<"c", "i", "t", "a", "c", "i", "ó", "n">>,
     <<"c", "o", "m", "p", "a", "r", "e", "c", "e", "n", "c", "i", "a">>}
PalabrasRequerimiento ==
    {<<"r", "e", "q", "u", "e", "r", "i", "m", "i", "e", "n", "t", "o">>,
     <<"s", "o", "l", "i", "c", "i", "t", "u", "d">>,
     <<"p", "l", "a", "z", "o">>}
PalabrasNotificacion ==
    {<<"n", "o", "t", "i", "f", "i", "c", "a", "c", "i", "ó", "n">>,
     <<"a", "v", "i", "s", "o">>,
     <<"c", "o", "m", "u", "n", "i", "c", "a", "c", "i", "ó", "n">>}

\* any(palabra in texto for palabra in palabras)
AnyIn(palabras, texto) == \E palabra \in palabras : Contains(texto, palabra)

Clasificacion(nivel, tipo, requiere, justificacion) ==
    [nivel_urgencia  |-> Str(nivel),
     tipo_actuacion  |-> Str(tipo),
     requiere_accion |-> Bool(requiere),
     justificacion   |-> Str(justificacion)]

ClasificacionAudiencia ==
    Clasificacion("Urgente", "Audiencia", TRUE,
                  "Las audiencias requieren preparación y asistencia obligatoria.")
ClasificacionRequerimiento ==
    Clasificacion("Alta", "Requerimiento", TRUE,
                  "Existe un plazo definido para responder al requerimiento.")
ClasificacionNotificacion ==
    Clasificacion("Normal", "Notificación", FALSE,
                  "Es una notificación informativa que no requiere acción inmediata.")
ClasificacionTramite ==
    Clasificacion("Baja", "Trámite", FALSE,
                  "Actuación de trámite regular sin plazos críticos asociados.")

\* the label as it is
texto_sin_cambio(texto) == texto

\* actuacion.get('actuacion', '').lower(): the label in lower case
texto_minusculas(texto) == lower(texto)

\* the if/elif chain over the lower-cased label
clasificar_texto(texto_actuacion) ==
    IF AnyIn(PalabrasAudiencia, texto_actuacion) THEN ClasificacionAudiencia
    ELSE IF AnyIn(PalabrasRequerimiento, texto_actuacion) THEN ClasificacionRequerimiento
    ELSE IF AnyIn(PalabrasNotificacion, texto_actuacion) THEN ClasificacionNotificacion
    ELSE ClasificacionTramite

AttributeError == Raised("AttributeError")

\* _clasificar_actuacion_simulada(actuacion); a label that is not a str has
\* no lower()
clasificar_actuacion_simulada(actuacion) ==
    LET texto == GetDefault(actuacion, "actuacion", Str(<<>>))
    IN  IF texto.kind # "str" THEN AttributeError
        ELSE clasificar_texto(texto_minusculas(texto.s))

\* self.use_simulation, set in __init__
use_simulation == TRUE

\* clasificar_actuacion(actuacion) with use_simulation set
clasificar_actuacion(actuacion) ==
    /\ use_simulation
    /\ last' = [op |-> "clasificar_actuacion", actuacion |-> actuacion,
                ret |-> clasificar_actuacion_simulada(actuacion)]
    /\ UNCHANGED <<empresas, procesos, actuaciones, documentos, now, sesiones>>

---------------------------------------------------------------------------
(* AIGenerativeService.clasificar_actuacion: the external-model strategy *)

\* The reply of the chat model is a text, kept as the sequence of its
\* lexical pieces: an opening brace, a closing brace, a member "key": value
\* (with its comma), or a stretch of text that is none of these.
Abre == [t |-> "{"]
Cierra == [t |-> "}"]
Prosa == [t |-> "prosa"]
Par(k, v) == [t |-> "par", k |-> k, v |-> v]

\* str.find and str.rfind of a piece, counted from 1 (0 when there is none)
find(texto, c) == IndexOf(texto, c)
rfind(texto, c) ==
    IF \E i \in 1..Len(texto) : texto[i] = c
    THEN CHOOSE i \in 1..Len(texto) : texto[i] = c /\ \A j \in (i + 1)..Len(texto) : texto[j] # c
    ELSE 0

JSONDecodeError == Raised("JSONDecodeError")

\* the dictionary of a sequence of members, a later member replacing an
\* earlier one of the same key
DictDe(pares) ==
    [k \in {pares[i].k : i \in 1..Len(pares)} |->
        pares[CHOOSE i \in 1..Len(pares) :
                 pares[i].k = k /\ \A j \in (i + 1)..Len(pares) : pares[j].k # k].v]

\* json.loads of a text that starts with an opening brace and ends with a
\* closing one: an object when all that lies between is members
json_loads(texto) ==
    IF \A i \in 2..(Len(texto) - 1) : texto[i].t = "par"
    THEN DictDe(SubSeq(texto, 2, Len(texto) - 1))
    ELSE JSONDecodeError

\* the result of both except branches
ClasificacionNoClasificada ==
    Clasificacion("Normal", "No clasificada", FALSE,
                  "No se pudo determinar automáticamente.")

\* what the try block gives for reply clasificacion_texto: the parsed object,
\* or the exception of the parse
extraer_json(clasificacion_texto) ==
    IF /\ find(clasificacion_texto, Abre) >= 1
       /\ rfind(clasificacion_texto, Cierra) >= find(clasificacion_texto, Abre)
    THEN json_loads(SubSeq(clasificacion_texto, find(clasificacion_texto, Abre),
                           rfind(clasificacion_texto, Cierra)))
    ELSE ValueError

\* the try block with no except branch: the exception leaves the call
respuesta_sin_except(clasificacion_json) == clasificacion_json

\* `return clasificacion_json`, and the two except branches: the parsed
\* object as it is, the fixed result when the parse raised
respuesta_devuelta(clasificacion_json) ==
    IF IsRaised(clasificacion_json) THEN ClasificacionNoClasificada
    ELSE clasificacion_json

\* the body of clasificar_actuacion below the use_simulation test, for
\* reply respuesta of chat_model.invoke (a text, or the exception it raised)
clasificar_con_modelo(actuacion, respuesta) ==
    IF IsRaised(respuesta) THEN ClasificacionNoClasificada
    ELSE respuesta_devuelta(extraer_json(respuesta.s))

\* clasificar_actuacion(actuacion) on a service whose use_simulation is unset
clasificar_actuacion_modelo(actuacion, respuesta) ==
    /\ last' = [op |-> "clasificar_actuacion", actuacion |-> actuacion,
                respuesta |-> respuesta,
                ret |-> clasificar_con_modelo(actuacion, respuesta)]
    /\ UNCHANGED <<empresas, procesos, actuaciones, documentos, now, sesiones>>

---------------------------------------------------------------------------
(* DatabaseService.guardar_proceso, statement by statement *)

\* The application runs in several worker processes over one database
\* file, each request with a session of its own.  A query reads the rows
\* committed so far, and a commit writes at once; between two statements of
\* one call the other workers may run theirs.  sesiones maps a worker to
\* the call of guardar_proceso it is in: the arguments, the statement to run
\* next, and the party the call has resolved.

\* the workers that may run a call at the same time
MaxSesiones == 2

EnCurso(w, pc) == w \in DOMAIN sesiones /\ sesiones[w].pc = pc

\* the call of worker w goes on at statement pc, with party empresa
sigue(w, pc, empresa, creada) ==
    sesiones' = [sesiones EXCEPT ![w].pc = pc, ![w].empresa = empresa,
                                 ![w].empresa_creada = creada]

\* the call of worker w ends: it returns or raises ret
termina(w, log, ret) ==
    /\ sesiones' = [x \in DOMAIN sesiones \ {w} |-> sesiones[x]]
    /\ last' = [op |-> "guardar_proceso", sesion |-> w,
                datos_proceso |-> sesiones[w].datos_proceso,
                datos_empresa |-> sesiones[w].datos_empresa,
                log |-> log, ret |-> ret]

\* the statement after the existence query
tras_consulta(proceso_existente, datos_empresa) ==
    IF proceso_existente # None THEN "actualizar"
    ELSE IF HayEmpresa(datos_empresa) THEN "empresa"
    ELSE "insertar"

\* the query for the process: proceso_existente = db.query(...).first()
sesion_consulta(w, datos_proceso, datos_empresa) ==
    /\ w \in 1..MaxSesiones
    /\ w \notin DOMAIN sesiones
    /\ sesiones' = [x \in DOMAIN sesiones \cup {w} |->
                      IF x = w
                      THEN [pc |-> tras_consulta(
                                       First(procesos, "id_proceso_api",
                                             Get(datos_proceso, "idProceso")),
                                       datos_empresa),
                            datos_proceso |-> datos_proceso,
                            datos_empresa |-> datos_empresa,
                            empresa |-> None,
                            empresa_creada |-> FALSE]
                      ELSE sesiones[x]]
    /\ UNCHANGED <<empresas, procesos, actuaciones, documentos, now, last>>

\* the branch of a stored process: the assignments and db.commit(), which
\* writes the assigned columns of the row
actualiza_fila(w, fila, fecha, t) ==
    IF fecha.kind = "raise"
    THEN /\ termina(w, "Actualizando proceso existente", fecha)
         /\ UNCHANGED <<empresas, procesos, actuaciones, documentos, now>>
    ELSE /\ procesos' = [procesos EXCEPT ![fila.id] =
                            actualizar_proceso(fila, sesiones[w].datos_proceso, t)]
         /\ now' = t
         /\ termina(w, "Actualizando proceso existente",
                    actualizar_proceso(fila, sesiones[w].datos_proceso, t))
         /\ UNCHANGED <<empresas, actuaciones, documentos>>

sesion_actualizar(w, t) ==
    /\ EnCurso(w, "actualizar")
    /\ t \in now..MaxClock
    /\ actualiza_fila(w, First(procesos, "id_proceso_api",
                               Get(sesiones[w].datos_proceso, "idProceso")),
                      parse_date(Get(sesiones[w].datos_proceso, "fechaUltimaActuacion")),
                      t)

\* the party exists: guardar_empresa returns it, with its nit set if it
\* had none
empresa_hallada(w, emp) ==
    IF IsRaised(emp.ret)
    THEN /\ termina(w, "Creando nuevo proceso", emp.ret)
         /\ UNCHANGED <<empresas, procesos, actuaciones, documentos, now>>
    ELSE /\ empresas' = emp.empresas
         /\ sigue(w, "insertar", emp.ret, FALSE)
         /\ UNCHANGED <<procesos, actuaciones, documentos, now, last>>

\* guardar_empresa up to `if empresa:`: the queries by nit and by name
sesion_empresa_consulta(w) ==
    /\ EnCurso(w, "empresa")
    /\ IF \/ empresa_por_nit(empresas, Get(sesiones[w].datos_empresa, "nit")) # None
          \/ First(empresas, "nombre", Get(sesiones[w].datos_empresa, "nombre")) # None
       THEN empresa_hallada(w, guardar_empresa_en(empresas, sesiones[w].datos_empresa))
       ELSE /\ sigue(w, "empresa_crear", None, FALSE)
            /\ UNCHANGED <<empresas, procesos, actuaciones, documentos, now, last>>

\* guardar_empresa from `nueva_empresa = Empresa(...)`: db.add, db.commit
sesion_empresa_crear(w) ==
    /\ EnCurso(w, "empresa_crear")
    /\ IF Unique(Append(empresas, EmpresaRow(Len(empresas) + 1, sesiones[w].datos_empresa)),
                 "nit")
       THEN /\ empresas' = Append(empresas, EmpresaRow(Len(empresas) + 1,
                                                       sesiones[w].datos_empresa))
            /\ sigue(w, "insertar",
                     EmpresaRow(Len(empresas) + 1, sesiones[w].datos_empresa), TRUE)
            /\ UNCHANGED <<procesos, actuaciones, documentos, now, last>>
       ELSE /\ termina(w, "Creando nuevo proceso", IntegrityError)
            /\ UNCHANGED <<empresas, procesos, actuaciones, documentos, now>>

\* db.add(nuevo_proceso) and db.commit(): the insert, refused when the
\* table holds the identifier
inserta_fila(w, nuevo_proceso, t) ==
    IF RowRaised(nuevo_proceso, ProcesoDateCols)
    THEN /\ termina(w, "Creando nuevo proceso", TypeError)
         /\ UNCHANGED <<empresas, procesos, actuaciones, documentos, now>>
    ELSE IF ~Unique(Append(procesos, nuevo_proceso), "id_proceso_api")
    THEN /\ termina(w, "Creando nuevo proceso", IntegrityError)
         /\ UNCHANGED <<empresas, procesos, actuaciones, documentos, now>>
    ELSE /\ procesos' = Append(procesos, nuevo_proceso)
         /\ now' = t
         /\ termina(w, "Creando nuevo proceso", nuevo_proceso)
         /\ UNCHANGED <<empresas, actuaciones, documentos>>

\* guardar_proceso from `nuevo_proceso = Proceso(...)`
sesion_insertar(w, t) ==
    /\ EnCurso(w, "insertar")
    /\ t \in now..MaxClock
    /\ inserta_fila(w, ProcesoRow(Len(procesos) + 1, sesiones[w].datos_proceso,
                                  empresa_id_de(sesiones[w].empresa), t), t)

---------------------------------------------------------------------------
(* JudicialAPIClient: the registry client *)

\* What the registry does with one session.get: it answers 2xx with a JSON
\* body, it answers non-2xx (texto is str(e) of the HTTPError, the status
\* line and the URL; cuerpo is the body), or no answer arrives (connection
\* error or timeout; texto is str(e)).
Respuesta2xx(json) == [clase |-> "2xx", json |-> json]
RespuestaError(texto, cuerpo) == [clase |-> "http", texto |-> texto, cuerpo |-> cuerpo]
SinRespuesta(texto) == [clase |-> "transporte", texto |-> texto]

\* the body of a non-2xx answer: a JSON object, or text that is not JSON
CuerpoJson(d) == [json |-> TRUE, d |-> d]
CuerpoNoJson == [json |-> FALSE]

\* raise Exception(msg)
Excepcion(msg) == [kind |-> "raise", exc |-> "Exception", msg |-> msg]

\* error_msg of the HTTPError handler: str(e), and the body's Message when
\* the body is JSON and has one
error_msg(respuesta) ==
    IF respuesta.cuerpo.json /\ "Message" \in DOMAIN respuesta.cuerpo.d
    THEN respuesta.texto \o " - " \o respuesta.cuerpo.d["Message"]
    ELSE respuesta.texto

\* the try statement of _make_request for one answer of the registry
responder(respuesta) ==
    CASE respuesta.clase = "2xx"  -> respuesta.json
      [] respuesta.clase = "http" ->
            Excepcion("Error en la consulta a la API: " \o error_msg(respuesta))
      [] respuesta.clase = "transporte" ->
            Excepcion("Error en la consulta a la API: " \o respuesta.texto)

\* JudicialAPIClient._make_request: one session.get.  cola holds what the
\* registry does with the requests to come, in order; the call uses the
\* first and leaves the rest.
make_request(cola) == [ret |-> responder(Head(cola)), cola |-> Tail(cola)]

FraseMilRegistros == "Hay más de mil registros con los criterios especificados"

ConsultaDemasiadoGeneral ==
    Excepcion("La consulta es demasiado general. Por favor, especifique un código de despacho o un nombre más específico.")

\* a handler that re-raises every failure
relanzar(r) == r

\* `except Exception as e:` of consultar_por_razon_social
al_fallar(r) ==
    IF IsRaised(r.ret) /\ Contains(r.ret.msg, FraseMilRegistros)
    THEN [r EXCEPT !.ret = ConsultaDemasiadoGeneral]
    ELSE r

consultar_por_razon_social(cola) == al_fallar(make_request(cola))
consultar_por_radicado(cola) == make_request(cola)
obtener_detalle_proceso(cola) == make_request(cola)
obtener_actuaciones_proceso(cola) == make_request(cola)
obtener_documentos_actuacion(cola) == make_request(cola)

\* a call of the client alone
consultar_por_razon_social_call(cola) ==
    /\ last' = [op |-> "consultar_por_razon_social", cola |-> cola,
                ret |-> consultar_por_razon_social(cola).ret,
                peticiones |-> Len(cola) - Len(consultar_por_razon_social(cola).cola)]
    /\ UNCHANGED <<empresas, procesos, actuaciones, documentos, now, sesiones>>

---------------------------------------------------------------------------
(* main: the request handlers *)

\* What a handler leaves: the tables, the template it renders, the error it
\* shows, and the number of requests it made of the registry
Pagina(out, plantilla, peticiones) ==
    IF IsRaised(out.ret)
    THEN [st |-> out.st, plantilla |-> "error.html", error |-> out.ret,
          peticiones |-> peticiones]
    ELSE [st |-> out.st, plantilla |-> plantilla, error |-> None,
          peticiones |-> peticiones]

\* a handler that read the clock at t ends with page pag
responde(pag, call, t) ==
    /\ empresas' = pag.st.empresas
    /\ procesos' = pag.st.procesos
    /\ actuaciones' = pag.st.actuaciones
    /\ documentos' = pag.st.documentos
    /\ now' = t
    /\ last' = call @@ [plantilla |-> pag.plantilla, error |-> pag.error,
                        peticiones |-> pag.peticiones]
    /\ UNCHANGED sesiones

\* `for proceso in resultados['procesos']: guardar_proceso(...)`, left at
\* the first exception; each call commits on its own
RECURSIVE guardar_procesos(_, _, _, _)
guardar_procesos(out, lista, datos_empresa, t) ==
    IF Len(lista) = 0 \/ IsRaised(out.ret) THEN out
    ELSE guardar_procesos(guardar_proceso_en(out.st, Head(lista), datos_empresa, t),
                          Tail(lista), datos_empresa, t)

\* the body of a search handler after the fetch returned resultados
guardar_resultados(st, resultados, datos_empresa, t) ==
    IF IsRaised(resultados) THEN Salida(st, "", resultados)
    ELSE IF Truthy(Get(resultados, "procesos"))
    THEN guardar_procesos(Salida(st, "", None), resultados["procesos"].xs,
                          datos_empresa, t)
    ELSE Salida(st, "", None)

\* POST /buscar/razon-social
buscar_razon_social(nombre, tipo_persona, cola, t) ==
    /\ t \in now..MaxClock
    /\ responde(Pagina(guardar_resultados(Almacen, consultar_por_razon_social(cola).ret,
                                          [nombre |-> nombre, tipo_persona |-> tipo_persona],
                                          t),
                       "resultados.html",
                       Len(cola) - Len(consultar_por_razon_social(cola).cola)),
                [op |-> "buscar_razon_social", nombre |-> nombre, cola |-> cola], t)

\* POST /buscar/radicado
buscar_radicado(numero, cola, t) ==
    /\ t \in now..MaxClock
    /\ responde(Pagina(guardar_resultados(Almacen, consultar_por_radicado(cola).ret, None, t),
                       "resultados.html",
                       Len(cola) - Len(consultar_por_radicado(cola).cola)),
                [op |-> "buscar_radicado", numero |-> numero, cola |-> cola], t)

---------------------------------------------------------------------------
(* AIGenerativeService.generar_resumen_proceso *)

\* f"{v}" of a value of a record
Texto(v) ==
    CASE v.kind = "str"  -> v.s
      [] v.kind = "none" -> "None"
      [] v.kind = "int"  -> ToString(v.n)
      [] v.kind = "bool" -> IF v.b THEN "True" ELSE "False"

RECURSIVE Unir(_)
Unir(xs) ==
    IF Len(xs) = 0 THEN ""
    ELSE IF Len(xs) = 1 THEN xs[1].s
    ELSE xs[1].s \o ", " \o Unir(Tail(xs))

\* ", ".join(v): the texts of a list; a value that is no list of texts
\* raises
join(v) ==
    IF v.kind = "list" /\ \A i \in 1..Len(v.xs) : v.xs[i].kind = "str"
    THEN Str(Unir(v.xs))
    ELSE TypeError

NoEspecificado == Str("No especificado")

\* the f-string of _generar_resumen_simulado, stripped
resumen_simulado(radicado, despacho, demandantes, demandados) ==
    IF IsRaised(demandantes) THEN demandantes
    ELSE IF IsRaised(demandados) THEN demandados
    ELSE Str("El proceso judicial con radicado " \o radicado
             \o " se encuentra actualmente en curso en el despacho " \o despacho
             \o ". Este proceso involucra a " \o demandantes.s
             \o " como parte demandante y a " \o demandados.s
             \o " como parte demandada.\n\n        Según las actuaciones recientes, el proceso ha tenido avances significativos en los últimos meses. Se han registrado notificaciones importantes y se han cumplido los términos procesales establecidos. Las actuaciones más recientes sugieren que el proceso está siguiendo su curso normal dentro de los tiempos esperados para este tipo de casos.\n\n        Es importante prestar atención a las próximas fechas de audiencia y a los requerimientos pendientes, ya que podrían ser determinantes para el desarrollo del proceso. Se recomienda mantener un seguimiento constante de las actuaciones futuras para asegurar el cumplimiento de todos los términos legales y evitar contratiempos procesales.")

generar_resumen_simulado(detalle_proceso, lista) ==
    resumen_simulado(Texto(GetDefault(detalle_proceso, "llaveProceso", NoEspecificado)),
                     Texto(GetDefault(detalle_proceso, "despacho", NoEspecificado)),
                     join(GetDefault(detalle_proceso, "demandantes", List(<<NoEspecificado>>))),
                     join(GetDefault(detalle_proceso, "demandados", List(<<NoEspecificado>>))))

\* generar_resumen_proceso with use_simulation set
generar_resumen_proceso(detalle_proceso, lista) ==
    generar_resumen_simulado(detalle_proceso, lista)

\* a call of the summarizer alone
generar_resumen_proceso_call(detalle_proceso, lista) ==
    /\ use_simulation
    /\ last' = [op |-> "generar_resumen_proceso", detalle_proceso |-> detalle_proceso,
                actuaciones |-> lista,
                ret |-> generar_resumen_proceso(detalle_proceso, lista)]
    /\ UNCHANGED <<empresas, procesos, actuaciones, documentos, now, sesiones>>

ResumenNoDisponible ==
    Str("No se pudo generar un resumen automático para este proceso.")

\* the try statement of generar_resumen_proceso: the reply of the chat
\* model, or the fixed text when the call raises
resumen_del_modelo(respuesta) ==
    IF IsRaised(respuesta) THEN ResumenNoDisponible ELSE respuesta

\* the body of generar_resumen_proceso below the use_simulation test: the
\* two joins, then the call of the model
resumir_con_modelo(demandantes, demandados, respuesta) ==
    IF IsRaised(demandantes) THEN demandantes
    ELSE IF IsRaised(demandados) THEN demandados
    ELSE resumen_del_modelo(respuesta)

\* generar_resumen_proceso on a service whose use_simulation is unset
generar_resumen_proceso_modelo(detalle_proceso, lista, respuesta) ==
    /\ last' = [op |-> "generar_resumen_proceso", detalle_proceso |-> detalle_proceso,
                actuaciones |-> lista, respuesta |-> respuesta,
                ret |-> resumir_con_modelo(
                    join(GetDefault(detalle_proceso, "demandantes",
                                    List(<<NoEspecificado>>))),
                    join(GetDefault(detalle_proceso, "demandados",
                                    List(<<NoEspecificado>>))),
                    respuesta)]
    /\ UNCHANGED <<empresas, procesos, actuaciones, documentos, now, sesiones>>

---------------------------------------------------------------------------
(* main: the detail handlers *)

KeyError == Raised("KeyError")

\* the body of the loop over the fetched actions: classify, then store the
\* classification under actuacion['idRegActuacion']
clasificar_y_guardar(st, actuacion, clasificacion) ==
    IF IsRaised(clasificacion) THEN Salida(st, "", clasificacion)
    ELSE IF "idRegActuacion" \notin DOMAIN actuacion THEN Salida(st, "", KeyError)
    ELSE guardar_clasificacion_actuacion_en(st, actuacion["idRegActuacion"], clasificacion)

\* `for actuacion in actuaciones['actuaciones']:`, left at the first
\* exception
RECURSIVE clasificar_actuaciones(_, _)
clasificar_actuaciones(out, lista) ==
    IF Len(lista) = 0 \/ IsRaised(out.ret) THEN out
    ELSE clasificar_actuaciones(
             clasificar_y_guardar(out.st, Head(lista),
                                  clasificar_actuacion_simulada(Head(lista))),
             Tail(lista))

\* a handler that leaves when the summary is stored
sin_clasificar(out, lista) == out

\* the loop that classifies, after guardar_resumen_proceso left out
detalle_clasificar(out, lista) ==
    IF IsRaised(out.ret) THEN out
    ELSE clasificar_actuaciones(Salida(out.st, "", None), lista)

\* generar_resumen_proceso gave resumen: guardar_resumen_proceso
detalle_resumir(out, id_proceso, resumen, lista) ==
    IF IsRaised(out.ret) THEN out
    ELSE IF IsRaised(resumen) THEN Salida(out.st, "", resumen)
    ELSE detalle_clasificar(guardar_resumen_proceso_en(out.st, id_proceso, resumen), lista)

\* `if actuaciones.get('actuaciones'):` guardar_actuaciones, and the summary
detalle_actuaciones(out, id_proceso, detalle, lista) ==
    detalle_resumir(IF Len(lista) > 0
                    THEN guardar_actuaciones_en(out.st, id_proceso, lista) ELSE out,
                    id_proceso, generar_resumen_proceso(detalle, lista), lista)

\* actuaciones['actuaciones'] when it is worth a loop
lista_de(resultado, k) == IF Truthy(Get(resultado, k)) THEN resultado[k].xs ELSE <<>>

\* the handler after its two fetches
detalle_guardar(st, id_proceso, detalle, actuaciones_) ==
    detalle_actuaciones(guardar_detalle_proceso_en(st, id_proceso, detalle),
                        id_proceso, detalle, lista_de(actuaciones_, "actuaciones"))

\* a handler that stores the detail before it fetches the actions
detalle_tras_detalle_escribe(st, id_proceso, r1, r2) ==
    IF IsRaised(r2.ret)
    THEN Pagina(Salida(guardar_detalle_proceso_en(st, id_proceso, r1.ret).st, "", r2.ret),
                "detalle_proceso.html", 2)
    ELSE Pagina(detalle_guardar(st, id_proceso, r1.ret, r2.ret), "detalle_proceso.html", 2)

\* the detail was fetched; r2 is the fetch of the actions
detalle_tras_detalle(st, id_proceso, r1, r2) ==
    IF IsRaised(r2.ret) THEN Pagina(Salida(st, "", r2.ret), "detalle_proceso.html", 2)
    ELSE Pagina(detalle_guardar(st, id_proceso, r1.ret, r2.ret), "detalle_proceso.html", 2)

detalle_con(st, id_proceso, r1) ==
    IF IsRaised(r1.ret) THEN Pagina(Salida(st, "", r1.ret), "detalle_proceso.html", 1)
    ELSE detalle_tras_detalle(st, id_proceso, r1, obtener_actuaciones_proceso(r1.cola))

\* GET /proceso/{id_proceso}
detalle_proceso(id_proceso, cola) ==
    responde(detalle_con(Almacen, id_proceso, obtener_detalle_proceso(cola)),
             [op |-> "detalle_proceso", id_proceso |-> id_proceso, cola |-> cola], now)

documentos_con(st, id_actuacion, r) ==
    IF IsRaised(r.ret) THEN Salida(st, "", r.ret)
    ELSE IF Len(lista_de(r.ret, "documentos")) > 0
    THEN guardar_documentos_en(st, id_actuacion, lista_de(r.ret, "documentos"))
    ELSE Salida(st, "", None)

\* GET /actuacion/{id_actuacion}
detalle_actuacion(id_actuacion, cola) ==
    responde(Pagina(documentos_con(Almacen, id_actuacion,
                                   obtener_documentos_actuacion(cola)),
                    "detalle_actuacion.html", 1),
             [op |-> "detalle_actuacion", id_actuacion |-> id_actuacion, cola |-> cola],
             now)

---------------------------------------------------------------------------
(* Inputs: the records the registry returns and the arguments of the calls *)

SeqsUpTo(S, n) == UNION {[1..k -> S] : k \in 0..n}

IdsProceso == {Str("P1"), Str("P2")}
IdsActuacion == {Str("A1"), Str("A2")}
IdsDocumento == {Str("ABC123"), Str("D2")}

Fecha15 == Str(<<"2", "0", "2", "4", "-", "0", "3", "-", "1", "5">>)
Fecha16T ==
    Str(<<"2", "0", "2", "4", "-", "0", "3", "-", "1", "6", "T",
          "0", "0", ":", "0", "0", ":", "0", "0">>)
FechaMala == Str(<<"1", "5", "/", "0", "3", "/", "2", "0", "2", "4">>)

\* a process of a search response, in version v of its text fields
DatosProceso(id, v, fecha) ==
    [idProceso            |-> id,
     llaveProceso         |-> Str("llave " \o v),
     fechaProceso         |-> IF v = "a" THEN Fecha15 ELSE Fecha16T,
     fechaUltimaActuacion |-> fecha,
     despacho             |-> Str("despacho " \o v),
     departamento         |-> Str("departamento " \o v),
     sujetosProcesales    |-> Str("sujetos " \o v)]

\* the party of a search by name (main.buscar_razon_social), and parties
\* with a tax identifier
DatosEmpresa(nombre, tipo) == [nombre |-> Str(nombre), tipo_persona |-> Str(tipo)]
DatosEmpresaNit(nombre, nit) == [nombre |-> Str(nombre), nit |-> nit]

\* a process detail, in version v; the short one carries no optional field
DetalleProceso(v, privado) ==
    [claseProceso        |-> Str("clase " \o v),
     tipoProceso         |-> Str("tipo " \o v),
     subTipoProceso      |-> Str("subtipo " \o v),
     ubicacionExpediente |-> Str("ubicacion " \o v),
     esPrivado           |-> Bool(privado),
     demandantes         |-> List(<<Str("demandante " \o v)>>),
     demandados          |-> List(<<Str("demandado " \o v), Str("otro")>>)]
DetalleCorto == [llaveProceso |-> Str("llave a")]
\* a detail whose fields are null
DetalleNulo == [claseProceso |-> None, esPrivado |-> None, demandantes |-> None]

Etiqueta(v) ==
    IF v = "a" THEN Str(<<"A", "U", "D", "I", "E", "N", "C", "I", "A">>)
               ELSE Str(<<"A", "v", "i", "s", "o">>)

\* an action of a process, in version v
DatosActuacion(id, v) ==
    [idRegActuacion |-> id,
     consActuacion  |-> IntV(IF v = "a" THEN 1 ELSE 2),
     fechaActuacion |-> IF v = "a" THEN Fecha15 ELSE Fecha16T,
     actuacion      |-> Etiqueta(v),
     anotacion      |-> Str("anotacion " \o v),
     fechaInicial   |-> IF v = "a" THEN None ELSE Fecha15,
     fechaFinal     |-> IF v = "a" THEN None ELSE FechaMala,
     fechaRegistro  |-> Fecha16T,
     conDocumentos  |-> Bool(v = "a")]

\* a document of an action; version b carries a URL of its own
DatosDocumento(id, v) ==
    IF v = "a"
    THEN [idRegDocumento   |-> id,
          nombreDocumento  |-> Str("documento a"),
          fechaDocumento   |-> Fecha15,
          fechaPublicacion |-> Fecha16T]
    ELSE [idRegDocumento   |-> id,
          nombreDocumento  |-> Str("documento b"),
          fechaDocumento   |-> FechaMala,
          fechaPublicacion |-> None,
          url              |-> Str("https://example.org/" \o id.s),
          urlDocumento     |-> Str("https://example.org/" \o id.s)]

---------------------------------------------------------------------------
(* Specifications *)

Init ==
    /\ empresas = <<>>
    /\ procesos = <<>>
    /\ actuaciones = <<>>
    /\ documentos = <<>>
    /\ now = 1
    /\ last = [op |-> "init"]
    /\ sesiones = <<>>

\* Processes: searches that store and refresh processes, with the detail
\* and the summary of a process present.
ProcesosBusqueda ==
    {DatosProceso(Str("P1"), "a", Fecha15), DatosProceso(Str("P1"), "b", Fecha16T),
     DatosProceso(Str("P1"), "b", FechaMala), DatosProceso(Str("P1"), "b", None),
     DatosProceso(Str("P1"), "b", Str(<<>>)), [idProceso |-> Str("P1")],
     DatosProceso(Str("P1"), "b", IntV(20240315)),
     [idProceso |-> Str("P2")]}

NextProceso ==
    \/ \E d \in ProcesosBusqueda, e \in {None, DatosEmpresa("ACME", "jur")},
           t \in now..MaxClock :
           guardar_proceso(d, e, t)
    \/ guardar_detalle_proceso(Str("P1"), DetalleProceso("a", TRUE))
    \/ guardar_resumen_proceso(Str("P1"), Str("resumen"))

SpecProceso == Init /\ [][NextProceso]_vars

\* the rows of a table that hold value v in column col
Filas(table, col, v) == {i \in 1..Len(table) : table[i][col] = v}

\* the columns of a row other than those of cols are the same in r and s
IgualSalvo(r, s, cols) == \A c \in (DOMAIN r) \ cols : r[c] = s[c]

\* C1: guardar_proceso called for a processId that is already stored leaves
\* exactly one row with that processId; it changes no other row and no Party,
\* and in the row itself nothing but the last-action date and the time of the
\* query, whatever the payload and the party hint carry; no two rows ever
\* share a processId.
C1_SegundaLlamada ==
    /\ last'.op = "guardar_proceso"
    /\ Filas(procesos, "id_proceso_api", Get(last'.datos_proceso, "idProceso")) # {}
    => /\ Len(procesos') = Len(procesos)
       /\ empresas' = empresas
       /\ Cardinality(Filas(procesos', "id_proceso_api",
                            Get(last'.datos_proceso, "idProceso"))) = 1
       /\ \A i \in 1..Len(procesos) :
             IF procesos[i].id_proceso_api = Get(last'.datos_proceso, "idProceso")
             THEN IgualSalvo(procesos[i], procesos'[i],
                             {"fecha_ultima_actuacion", "fecha_consulta"})
             ELSE procesos'[i] = procesos[i]

C1_Idempotence ==
    /\ [][C1_SegundaLlamada]_vars
    /\ [](\A i, j \in 1..Len(procesos) :
             procesos[i].id_proceso_api = procesos[j].id_proceso_api => i = j)

\* a second call has refreshed the dates of a row that has a detail and a
\* summary, with a payload whose text fields differ from the stored ones and
\* a party hint the row was stored without
C1_Witness ==
    /\ last.op = "guardar_proceso"
    /\ last.log = "Actualizando proceso existente"
    /\ last.datos_empresa # None
    /\ last.datos_proceso = DatosProceso(Str("P1"), "b", Fecha16T)
    /\ \E i \in 1..Len(procesos) :
          /\ procesos[i].id_proceso_api = Str("P1")
          /\ procesos[i].llave_proceso = Str("llave a")
          /\ procesos[i].fecha_ultima_actuacion = DateTime(2024, 3, 16, 0, 0, 0)
          /\ procesos[i].fecha_consulta = MaxClock
          /\ procesos[i].empresa_id = None
          /\ procesos[i].clase_proceso = Str("clase a")
          /\ procesos[i].resumen_generado = Str("resumen")

---------------------------------------------------------------------------
\* Actions: two processes, batches of up to MaxBatch records over two
\* actionIds (one of them in two versions) for the first process, batches
\* of one of these records for the second, and a classification.
ActuacionesRegistro ==
    {DatosActuacion(Str("A1"), "a"), DatosActuacion(Str("A1"), "b"),
     DatosActuacion(Str("A2"), "a")}

NextActuaciones ==
    \/ \E id \in IdsProceso : guardar_proceso(DatosProceso(id, "a", Fecha15), None, now)
    \/ \E lista \in SeqsUpTo(ActuacionesRegistro, MaxBatch) :
           guardar_actuaciones(Str("P1"), lista)
    \/ \E lista \in SeqsUpTo({DatosActuacion(Str("A1"), "b")}, MaxBatch) :
           guardar_actuaciones(Str("P2"), lista)
    \/ guardar_clasificacion_actuacion(Str("A1"), ClasificacionAudiencia)

SpecActuaciones == Init /\ [][NextActuaciones]_vars

\* the identifiers of the rows a call returned
Identificadores(ret) == {ret.xs[k].id : k \in 1..Len(ret.xs)}
IdsRegistro(ret) == {ret.xs[k].id_reg_actuacion : k \in 1..Len(ret.xs)}

\* C2: when guardar_actuaciones has returned a list for a stored process and
\* the next call is the same call (same process, same list of records), the
\* second call returns a list with the same set of Action identifiers; and no
\* two stored Action rows ever share an actionId.
C2_MismaLista ==
    /\ last.op = "guardar_actuaciones"
    /\ last.log # "No se encontro el proceso"
    /\ last.ret.kind = "list"
    /\ last'.op = "guardar_actuaciones"
    /\ last'.repetida
    => /\ last'.ret.kind = "list"
       /\ Identificadores(last'.ret) = Identificadores(last.ret)
       /\ IdsRegistro(last'.ret) = IdsRegistro(last.ret)

C2_SinDuplicados ==
    /\ [][C2_MismaLista]_vars
    /\ [](\A i, j \in 1..Len(actuaciones) :
             actuaciones[i].id_reg_actuacion = actuaciones[j].id_reg_actuacion => i = j)

\* the same list of two records has been given twice in a row, and both
\* actions are stored
C2_Witness ==
    /\ last.op = "guardar_actuaciones"
    /\ last.repetida
    /\ Len(last.actuaciones) = 2
    /\ last.ret.kind = "list"
    /\ IdsRegistro(last.ret) = IdsActuacion
    /\ Len(actuaciones) = 2

\* C3: a record of guardar_actuaciones whose actionId is stored gets the
\* stored row back, and the call changes no field of any stored Action,
\* whatever the record carries and whatever process the call names; no
\* operation ever changes the process of a stored Action.
C3_FilaIntacta ==
    last'.op = "guardar_actuaciones"
    => /\ \A i \in 1..Len(actuaciones) : actuaciones'[i] = actuaciones[i]
       /\ last'.ret.kind = "list" /\ last'.log # "No se encontro el proceso" =>
             \A k \in 1..Len(last'.actuaciones) :
                LET existente == First(actuaciones, "id_reg_actuacion",
                                       Get(last'.actuaciones[k], "idRegActuacion"))
                IN  existente # None => last'.ret.xs[k] = existente

C3_MismoProceso ==
    /\ Len(actuaciones') >= Len(actuaciones)
    /\ \A i \in 1..Len(actuaciones) :
          /\ actuaciones'[i].proceso_id = actuaciones[i].proceso_id
          /\ actuaciones'[i].id_reg_actuacion = actuaciones[i].id_reg_actuacion

---------------------------------------------------------------------------
\* The coordinator and the classifier together: every operation, on one
\* process, one action and one document, each also asked for under an
\* identifier that is never stored.
Next ==
    \/ \E e \in {None, DatosEmpresaNit("ACME", Str("900"))}, t \in now..MaxClock :
           guardar_proceso(DatosProceso(Str("P1"), "a", Fecha15), e, t)
    \/ guardar_empresa(DatosEmpresa("ACME", "jur"))
    \/ \E id \in IdsProceso : guardar_detalle_proceso(id, DetalleProceso("a", TRUE))
    \/ \E id \in IdsProceso : guardar_resumen_proceso(id, Str("resumen"))
    \/ \E id \in IdsProceso, lista \in SeqsUpTo({DatosActuacion(Str("A1"), "a")}, MaxBatch) :
           guardar_actuaciones(id, lista)
    \/ \E id \in IdsActuacion :
           guardar_clasificacion_actuacion(id, ClasificacionAudiencia)
    \/ \E id \in IdsActuacion,
          lista \in SeqsUpTo({DatosDocumento(Str("ABC123"), "a")}, MaxBatch) :
           guardar_documentos(id, lista)
    \/ clasificar_actuacion(DatosActuacion(Str("A1"), "a"))

Spec == Init /\ [][Next]_vars

\* C4: guardar_detalle_proceso, guardar_resumen_proceso and
\* guardar_actuaciones called for a process that is not stored, and
\* guardar_clasificacion_actuacion and guardar_documentos called for an action
\* that is not stored, raise nothing, return None (the first, second and
\* fourth) or an empty list (the third and fifth), and leave the four tables
\* as they were.
C4_SinPadre ==
    /\ (/\ last'.op \in {"guardar_detalle_proceso", "guardar_resumen_proceso"}
        /\ Filas(procesos, "id_proceso_api", last'.id_proceso_api) = {}
        => last'.ret = None /\ store' = store)
    /\ (/\ last'.op = "guardar_actuaciones"
        /\ Filas(procesos, "id_proceso_api", last'.id_proceso_api) = {}
        => last'.ret = List(<<>>) /\ store' = store)
    /\ (/\ last'.op = "guardar_clasificacion_actuacion"
        /\ Filas(actuaciones, "id_reg_actuacion", last'.id_reg_actuacion) = {}
        => last'.ret = None /\ store' = store)
    /\ (/\ last'.op = "guardar_documentos"
        /\ Filas(actuaciones, "id_reg_actuacion", last'.id_reg_actuacion) = {}
        => last'.ret = List(<<>>) /\ store' = store)

C4_PadreAusente == [][C4_SinPadre]_vars

\* a classification has been sent for an action that is not stored, while
\* the store holds a process, an action and a document
C4_Witness ==
    /\ last.op = "guardar_clasificacion_actuacion"
    /\ last.id_reg_actuacion = Str("A2")
    /\ last.log = "No se encontro la actuacion"
    /\ last.ret = None
    /\ Len(procesos) = 1 /\ Len(actuaciones) = 1 /\ Len(documentos) = 1
    /\ actuaciones[1].nivel_urgencia = None

---------------------------------------------------------------------------
\* Details: two processes, and details in two versions, without the
\* optional fields, and with null fields.
Detalles ==
    {DetalleProceso("a", TRUE), DetalleProceso("b", FALSE), DetalleCorto, DetalleNulo}

NextDetalle ==
    \/ \E id \in IdsProceso : guardar_proceso(DatosProceso(id, "a", Fecha15), None, now)
    \/ \E id \in IdsProceso, detalle \in Detalles : guardar_detalle_proceso(id, detalle)

SpecDetalle == Init /\ [][NextDetalle]_vars

\* the stored row of the process a call named, before and after the call
FilaAntes == First(procesos, "id_proceso_api", last'.id_proceso_api)
FilaDespues == First(procesos', "id_proceso_api", last'.id_proceso_api)

\* the five scalar fields take the record's value, None (False for the
\* privacy flag) when the record does not carry the field
C5_Escalares ==
    /\ FilaDespues.clase_proceso = Get(last'.detalle, "claseProceso")
    /\ FilaDespues.tipo_proceso = Get(last'.detalle, "tipoProceso")
    /\ FilaDespues.subtipo_proceso = Get(last'.detalle, "subTipoProceso")
    /\ FilaDespues.ubicacion_expediente = Get(last'.detalle, "ubicacionExpediente")
    /\ FilaDespues.es_privado = GetDefault(last'.detalle, "esPrivado", Bool(FALSE))

\* C5 as stated: after guardar_detalle_proceso on a stored process every one
\* of the seven fields holds the record's value (the name lists as JSON
\* text), and a field the record does not carry is reset.
C5_TodoReemplazado ==
    last'.op = "guardar_detalle_proceso" /\ FilaAntes # None
    => /\ C5_Escalares
       /\ FilaDespues.demandantes =
             IF "demandantes" \in DOMAIN last'.detalle
             THEN json_dumps(last'.detalle["demandantes"]) ELSE None
       /\ FilaDespues.demandados =
             IF "demandados" \in DOMAIN last'.detalle
             THEN json_dumps(last'.detalle["demandados"]) ELSE None

C5_Original == [][C5_TodoReemplazado]_vars

\* C5 amended: after guardar_detalle_proceso on a stored process the class,
\* type, subtype and file location hold the record's value or None when the
\* record does not carry the field, the privacy flag the record's value or
\* False; the claimant and respondent lists hold the JSON text of the
\* record's list when the record carries the key, and keep their earlier
\* value when it does not.
C5_ListasConservadas ==
    last'.op = "guardar_detalle_proceso" /\ FilaAntes # None
    => /\ C5_Escalares
       /\ FilaDespues.demandantes =
             IF "demandantes" \in DOMAIN last'.detalle
             THEN json_dumps(last'.detalle["demandantes"]) ELSE FilaAntes.demandantes
       /\ FilaDespues.demandados =
             IF "demandados" \in DOMAIN last'.detalle
             THEN json_dumps(last'.detalle["demandados"]) ELSE FilaAntes.demandados

C5_Detalle == [][C5_ListasConservadas]_vars

\* a detail without the optional fields has been stored over a full one: the
\* scalar fields are reset, the name lists are those of the earlier detail
C5_Witness ==
    /\ last.op = "guardar_detalle_proceso"
    /\ last.detalle = DetalleCorto
    /\ last.log # "No se encontro el proceso"
    /\ last.ret.clase_proceso = None
    /\ last.ret.es_privado = Bool(FALSE)
    /\ last.ret.demandantes = Str("[\"demandante a\"]")
    /\ last.ret.demandados = Str("[\"demandado a\", \"otro\"]")
    /\ last.ret \in {procesos[i] : i \in 1..Len(procesos)}

---------------------------------------------------------------------------
\* Classification: two actions of one process, classifications with all the
\* fields and with one field only, and the classifier on labelled records.
Clasificaciones ==
    {ClasificacionAudiencia, ClasificacionTramite, [nivel_urgencia |-> Str("Alta")]}

Etiquetas ==
    {
     \* AUDIENCIA
     <<"A", "U", "D", "I", "E", "N", "C", "I", "A">>,
     \* Plazo para audiencia
     <<"P", "l", "a", "z", "o", " ", "p", "a", "r", "a", " ", "a", "u",
      "d", "i", "e", "n", "c", "i", "a">>,
     \* CITACIÓN
     <<"C", "I", "T", "A", "C", "I", "Ó", "N">>,
     \* Comparecencia
     <<"C", "o", "m", "p", "a", "r", "e", "c", "e", "n", "c", "i", "a">>,
     \* Aviso de plazo
     <<"A", "v", "i", "s", "o", " ", "d", "e", " ", "p", "l", "a", "z",
      "o">>,
     \* Solicitud
     <<"S", "o", "l", "i", "c", "i", "t", "u", "d">>,
     \* NOTIFICACIÓN
     <<"N", "O", "T", "I", "F", "I", "C", "A", "C", "I", "Ó", "N">>,
     \* Comunicación
     <<"C", "o", "m", "u", "n", "i", "c", "a", "c", "i", "ó", "n">>,
     \* Notificacion
     <<"N", "o", "t", "i", "f", "i", "c", "a", "c", "i", "o", "n">>,
     \* Citacion
     <<"C", "i", "t", "a", "c", "i", "o", "n">>,
     \* Audienci
     <<"A", "u", "d", "i", "e", "n", "c", "i">>,
     \* Fijacion estado
     <<"F", "i", "j", "a", "c", "i", "o", "n", " ", "e", "s", "t", "a",
      "d", "o">>,
     \* the empty label
     <<>>}

\* a record with label e; the annotation names a hearing whatever the label
ActuacionEtiquetada(e) ==
    [idRegActuacion |-> Str("A1"),
     actuacion      |-> Str(e),
     anotacion      |-> Str(<<"a", "u", "d", "i", "e", "n", "c", "i", "a">>),
     fechaActuacion |-> Fecha15]

\* labelled records, a record without a label, and one whose label is null
ActuacionesEtiquetadas ==
    {ActuacionEtiquetada(e) : e \in Etiquetas}
    \cup {[idRegActuacion |-> Str("A1")], [idRegActuacion |-> Str("A1"), actuacion |-> None]}

NextClasificacion ==
    \/ guardar_proceso(DatosProceso(Str("P1"), "a", Fecha15), None, now)
    \/ \E a \in {DatosActuacion(Str("A1"), "a"), DatosActuacion(Str("A2"), "b")} :
           guardar_actuaciones(Str("P1"), <<a>>)
    \/ \E id \in IdsActuacion, c \in Clasificaciones :
           guardar_clasificacion_actuacion(id, c)
    \/ \E a \in ActuacionesEtiquetadas : clasificar_actuacion(a)

SpecClasificacion == Init /\ [][NextClasificacion]_vars

ColumnasClasificacion ==
    {"nivel_urgencia", "tipo_actuacion", "requiere_accion", "justificacion"}

\* C6: guardar_clasificacion_actuacion on a stored action leaves the four
\* classification fields equal to those of the call (null, and false for the
\* action-required flag, for a field the call does not carry), whether or
\* not the action had a classification; no other field of the action and no
\* other action changes.
C6_Sobrescribe ==
    /\ last'.op = "guardar_clasificacion_actuacion"
    /\ Filas(actuaciones, "id_reg_actuacion", last'.id_reg_actuacion) # {}
    => /\ Len(actuaciones') = Len(actuaciones)
       /\ \A i \in 1..Len(actuaciones) :
             IF actuaciones[i].id_reg_actuacion = last'.id_reg_actuacion
             THEN /\ actuaciones'[i].nivel_urgencia =
                        Get(last'.clasificacion, "nivel_urgencia")
                  /\ actuaciones'[i].tipo_actuacion =
                        Get(last'.clasificacion, "tipo_actuacion")
                  /\ actuaciones'[i].requiere_accion =
                        GetDefault(last'.clasificacion, "requiere_accion", Bool(FALSE))
                  /\ actuaciones'[i].justificacion =
                        Get(last'.clasificacion, "justificacion")
                  /\ IgualSalvo(actuaciones[i], actuaciones'[i], ColumnasClasificacion)
             ELSE actuaciones'[i] = actuaciones[i]
       /\ <<empresas, procesos, documentos>>' = <<empresas, procesos, documentos>>

C6_Clasificacion == [][C6_Sobrescribe]_vars

\* an action classified as a hearing has been classified again, as a
\* regular step
C6_Witness ==
    /\ last.op = "guardar_clasificacion_actuacion"
    /\ last.clasificacion = ClasificacionTramite
    /\ last.log # "No se encontro la actuacion"
    /\ last.encontrada.nivel_urgencia = Str("Urgente")
    /\ last.encontrada.requiere_accion = Bool(TRUE)
    /\ last.ret.nivel_urgencia = Str("Baja")
    /\ last.ret.requiere_accion = Bool(FALSE)
    /\ last.ret.cons_actuacion = IntV(1)
    /\ last.ret \in {actuaciones[i] : i \in 1..Len(actuaciones)}
    /\ Len(actuaciones) = 2

\* The reference classifier: the rules in their order of priority, a rule
\* applying to a label that holds one of its keywords, letter case apart.
MismaLetra(c, d) ==
    c = d \/ \E i \in 1..Len(UpperCase) : UpperCase[i] = c /\ LowerCase[i] = d

OcurreEn(palabra, etiqueta, pos) ==
    /\ pos + Len(palabra) - 1 <= Len(etiqueta)
    /\ \A j \in 1..Len(palabra) : MismaLetra(etiqueta[pos + j - 1], palabra[j])

ReglasPalabras == <<PalabrasAudiencia, PalabrasRequerimiento, PalabrasNotificacion>>

Aplica(i, etiqueta) ==
    \E palabra \in ReglasPalabras[i], pos \in 1..Len(etiqueta) :
        OcurreEn(palabra, etiqueta, pos)

PrimeraRegla(etiqueta) ==
    LET aplicables == {i \in 1..3 : Aplica(i, etiqueta)} \cup {4}
    IN  CHOOSE i \in aplicables : \A j \in aplicables : i <= j

NivelDeRegla == <<"Urgente", "Alta", "Normal", "Baja">>
TipoDeRegla == <<"Audiencia", "Requerimiento", "Notificación", "Trámite">>

\* the label of the record the classifier was last given
EtiquetaDada == GetDefault(last.actuacion, "actuacion", Str(<<>>))

\* C10: for every label that is a string, the keyword classifier returns the
\* urgency, category and action-required flag of the first rule, in the
\* order hearing, requirement, notification, that has a keyword in the
\* label, letter case apart, and those of the regular step when none has;
\* the other fields of the record do not matter.
C10_ReglasPorPrioridad ==
    last.op = "clasificar_actuacion" /\ EtiquetaDada.kind = "str"
    => /\ last.ret.nivel_urgencia = Str(NivelDeRegla[PrimeraRegla(EtiquetaDada.s)])
       /\ last.ret.tipo_actuacion = Str(TipoDeRegla[PrimeraRegla(EtiquetaDada.s)])
       /\ last.ret.requiere_accion = Bool(PrimeraRegla(EtiquetaDada.s) <= 2)

\* a label with a requirement keyword and, in capitals or not, a hearing
\* keyword has been classified as a hearing
C10_Witness ==
    /\ last.op = "clasificar_actuacion"
    /\ EtiquetaDada.kind = "str"
    /\ Aplica(1, EtiquetaDada.s) /\ Aplica(2, EtiquetaDada.s)
    /\ last.ret = ClasificacionAudiencia

---------------------------------------------------------------------------
\* Parties: hints of two names, without a nit, with an empty nit and with
\* one of two nits, given to guardar_empresa and to guardar_proceso.
Pistas ==
    {DatosEmpresa(n, "nat") : n \in {"ACME", "BETA"}}
    \cup {DatosEmpresaNit(n, nit) :
             n \in {"ACME", "BETA"}, nit \in {Str(""), Str("900"), Str("800")}}

NextEmpresa ==
    \/ \E datos_empresa \in Pistas : guardar_empresa(datos_empresa)
    \/ \E id \in IdsProceso,
          e \in {DatosEmpresa("ACME", "jur"), DatosEmpresaNit("BETA", Str("900"))} :
           guardar_proceso(DatosProceso(id, "a", Fecha15), e, now)

SpecEmpresa == Init /\ [][NextEmpresa]_vars

\* the name and the nit of the hint of the call
NombrePista == Get(last'.datos_empresa, "nombre")
NitPista == Get(last'.datos_empresa, "nit")

\* C7: guardar_empresa returns the party that holds the hint's nit when the
\* hint has a non-empty nit and a party holds it; if not, the party of the
\* hint's name when there is one; if not, it adds a party with the hint's
\* name and nit (unless the unique column refuses an empty nit a second
\* time); and no two parties ever hold the same non-empty nit.
C7_Orden ==
    last'.op = "guardar_empresa"
    => IF Truthy(NitPista) /\ Filas(empresas, "nit", NitPista) # {}
       THEN /\ empresas' = empresas
            /\ last'.ret \in {empresas[i] : i \in Filas(empresas, "nit", NitPista)}
       ELSE IF Filas(empresas, "nombre", NombrePista) # {}
       THEN /\ Len(empresas') = Len(empresas)
            /\ last'.ret.id \in Filas(empresas, "nombre", NombrePista)
            /\ last'.ret = empresas'[last'.ret.id]
       ELSE \/ /\ empresas' = Append(empresas, last'.ret)
               /\ last'.ret.id = Len(empresas) + 1
               /\ last'.ret.nombre = NombrePista
               /\ last'.ret.nit = NitPista
            \/ /\ last'.ret = IntegrityError
               /\ empresas' = empresas
               /\ NitPista = Str("")
               /\ Filas(empresas, "nit", Str("")) # {}

C7_Resolucion ==
    /\ [][C7_Orden]_vars
    /\ [](\A i, j \in 1..Len(empresas) :
             Truthy(empresas[i].nit) /\ empresas[i].nit = empresas[j].nit => i = j)

\* a hint with the name of one party and the nit of another has been
\* resolved to the party that holds the nit
C7_Witness ==
    /\ last.op = "guardar_empresa"
    /\ last.datos_empresa = DatosEmpresaNit("ACME", Str("900"))
    /\ last.ret \in {empresas[i] : i \in 1..Len(empresas)}
    /\ last.ret.nombre = Str("BETA")
    /\ last.ret.nit = Str("900")
    /\ \E i \in 1..Len(empresas) : empresas[i].nombre = Str("ACME")

\* C8: in no step does a party with a non-empty nit get another nit or lose
\* it; a nit changes only in a call whose hint has the party's name and a
\* non-empty nit no party holds, and only from missing to the hint's nit;
\* and such a call of guardar_empresa always leaves the nit set.
C8_Paso ==
    /\ \A i \in 1..Len(empresas) :
          /\ Truthy(empresas[i].nit) => empresas'[i].nit = empresas[i].nit
          /\ empresas'[i].nit # empresas[i].nit =>
                /\ last'.op \in {"guardar_empresa", "guardar_proceso"}
                /\ empresas[i].nombre = NombrePista
                /\ Truthy(NitPista)
                /\ Filas(empresas, "nit", NitPista) = {}
                /\ empresas'[i].nit = NitPista
    /\ last'.op = "guardar_empresa" /\ Truthy(NitPista)
          /\ Filas(empresas, "nit", NitPista) = {} =>
          \A i \in Filas(empresas, "nombre", NombrePista) :
             ~Truthy(empresas[i].nit) => empresas'[i].nit = NitPista

C8_NitEstable == [][C8_Paso]_vars

\* a party stored without a nit has gained one from a later hint, and a
\* hint with its name and another nit has left that nit in place
C8_Witness ==
    /\ last.op = "guardar_empresa"
    /\ last.datos_empresa = DatosEmpresaNit("ACME", Str("800"))
    /\ last.ret \in {empresas[i] : i \in 1..Len(empresas)}
    /\ last.ret.nombre = Str("ACME")
    /\ last.ret.tipo_persona = Str("nat")
    /\ last.ret.nit = Str("900")

---------------------------------------------------------------------------
\* Documents: two actions of one process, and batches of up to MaxBatch
\* records over two documentIds, one of them in two versions; the records of
\* the second version carry a URL of their own.
DocumentosRegistro ==
    {DatosDocumento(Str("ABC123"), "a"), DatosDocumento(Str("ABC123"), "b"),
     DatosDocumento(Str("D2"), "b")}

NextDocumentos ==
    \/ guardar_proceso(DatosProceso(Str("P1"), "a", Fecha15), None, now)
    \/ guardar_actuaciones(Str("P1"),
           <<DatosActuacion(Str("A1"), "a"), DatosActuacion(Str("A2"), "a")>>)
    \/ \E id \in IdsActuacion, lista \in SeqsUpTo(DocumentosRegistro, MaxBatch) :
           guardar_documentos(id, lista)

SpecDocumentos == Init /\ [][NextDocumentos]_vars

\* the URL of the template for a documentId
UrlDePlantilla(id) ==
    Str("https://consultaprocesos.ramajudicial.gov.co:448/api/v2/Descarga/Documento/"
        \o id.s)

\* C9: every row guardar_documentos inserts holds the URL of the template
\* with the record's documentId (for ABC123 the template ending in
\* /Descarga/Documento/ABC123), whatever URL the record carries; a record
\* whose documentId is stored gets the stored row back, and no stored row
\* changes.
C9_Paso ==
    last'.op = "guardar_documentos"
    => /\ \A i \in 1..Len(documentos) : documentos'[i] = documentos[i]
       /\ \A i \in (Len(documentos) + 1)..Len(documentos') :
             /\ documentos'[i].url_documento =
                   UrlDePlantilla(documentos'[i].id_reg_documento)
             /\ documentos'[i].id_reg_documento = Str("ABC123") =>
                   documentos'[i].url_documento.s =
                      "https://consultaprocesos.ramajudicial.gov.co:448/api/v2/Descarga/Documento/ABC123"
       /\ last'.ret.kind = "list" /\ last'.log # "No se encontro la actuacion" =>
             \A k \in 1..Len(last'.documentos) :
                LET existente == First(documentos, "id_reg_documento",
                                       Get(last'.documentos[k], "idRegDocumento"))
                IN  IF existente # None
                    THEN last'.ret.xs[k] = existente
                    ELSE last'.ret.xs[k].url_documento =
                            UrlDePlantilla(Get(last'.documentos[k], "idRegDocumento"))

C9_UrlDerivada ==
    /\ [][C9_Paso]_vars
    /\ [](\A i \in 1..Len(documentos) :
             documentos[i].url_documento = UrlDePlantilla(documentos[i].id_reg_documento))

\* document ABC123 has been stored from a record that carries a URL of its
\* own, and a later call has got the stored row back
C9_Witness ==
    /\ last.op = "guardar_documentos"
    /\ last.ret.kind = "list"
    /\ last.log # "No se encontro la actuacion"
    /\ Len(last.documentos) = 2
    /\ last.documentos[1] = DatosDocumento(Str("ABC123"), "a")
    /\ last.documentos[2] = DatosDocumento(Str("D2"), "b")
    /\ last.ret.xs[1] \in {documentos[i] : i \in 1..Len(documentos)}
    /\ last.ret.xs[1].nombre_documento = Str("documento b")
    /\ last.ret.xs[1].url_documento.s =
          "https://consultaprocesos.ramajudicial.gov.co:448/api/v2/Descarga/Documento/ABC123"
    /\ last.ret.xs[2].url_documento.s =
          "https://consultaprocesos.ramajudicial.gov.co:448/api/v2/Descarga/Documento/D2"

---------------------------------------------------------------------------
\* C11: clasificar_actuacion returns a classification, and raises nothing,
\* for every action record: one with a label, one without the label field
\* and one whose label field is null.
C11_Total ==
    last.op = "clasificar_actuacion"
    => /\ ~IsRaised(last.ret)
       /\ DOMAIN last.ret = ColumnasClasificacion

---------------------------------------------------------------------------
\* The two strategies: the classifier with the keyword rules and with the
\* external model, on the records of a detail request, and the result stored
\* as main.detalle_proceso stores it.
ParesCompletos ==
    <<Par("nivel_urgencia", Str("Alta")), Par("tipo_actuacion", Str("Requerimiento")),
      Par("requiere_accion", Bool(TRUE)), Par("justificacion", Str("Hay un plazo."))>>

\* replies of the model: the object alone, inside a sentence, with an
\* urgency of its own, with one field, with a field twice; no object, a
\* closing brace before the opening one, two objects, an empty reply; and a
\* call that raised
Respuestas ==
    {Str(<<Abre>> \o ParesCompletos \o <<Cierra>>),
     Str(<<Prosa, Abre>> \o ParesCompletos \o <<Cierra, Prosa>>),
     Str(<<Abre, Par("nivel_urgencia", Str("Crítica")),
           Par("tipo_actuacion", Str("Audiencia")), Par("requiere_accion", Bool(TRUE)),
           Par("justificacion", Str("Urge.")), Cierra>>),
     Str(<<Abre, Par("tipo_actuacion", Str("Audiencia")), Cierra>>),
     Str(<<Abre, Par("nivel_urgencia", Str("Baja")), Par("nivel_urgencia", None), Cierra>>),
     Str(<<Abre, Cierra>>),
     Str(<<Prosa>>),
     Str(<<Cierra, Prosa, Abre>>),
     Str(<<Abre, Par("nivel_urgencia", Str("Alta")), Cierra, Prosa, Abre, Cierra>>),
     Str(<<Abre, Prosa, Cierra>>),
     Str(<<>>),
     Raised("Exception")}

NextEstrategias ==
    \/ guardar_proceso(DatosProceso(Str("P1"), "a", Fecha15), None, now)
    \/ \E a \in {DatosActuacion(Str("A1"), "a"), DatosActuacion(Str("A2"), "b")} :
           guardar_actuaciones(Str("P1"), <<a>>)
    \/ \E a \in {DatosActuacion(Str("A1"), "a"), DatosActuacion(Str("A2"), "b"),
                 [idRegActuacion |-> Str("A2")]} :
           clasificar_actuacion(a)
    \/ \E a \in {DatosActuacion(Str("A1"), "a"), DatosActuacion(Str("A2"), "b")},
          respuesta \in Respuestas :
           clasificar_actuacion_modelo(a, respuesta)
    \/ /\ last.op = "clasificar_actuacion"
       /\ ~IsRaised(last.ret)
       /\ guardar_clasificacion_actuacion(last.actuacion["idRegActuacion"], last.ret)

SpecEstrategias == Init /\ [][NextEstrategias]_vars

NivelesUrgencia == {Str("Urgente"), Str("Alta"), Str("Normal"), Str("Baja")}

\* C12: under the keyword rules and under the external model, whatever the
\* model replies, the value clasificar_actuacion returns has the four fields
\* nivel_urgencia, tipo_actuacion, requiere_accion and justificacion, and its
\* nivel_urgencia is one of Urgente, Alta, Normal and Baja.
C12_CuatroCampos ==
    last.op = "clasificar_actuacion" /\ ~IsRaised(last.ret)
    => /\ DOMAIN last.ret = ColumnasClasificacion
       /\ last.ret.nivel_urgencia \in NivelesUrgencia

---------------------------------------------------------------------------
\* Dates: parse_date on texts made of a year, a month, a day and what
\* follows the day, on the empty text, on null and on values that are not
\* texts, with a process stored from a record with a date.
Anios == {<<<<"2", "0", "2", "4">>, 2024>>, <<<<"2", "0", "2", "3">>, 2023>>}
Meses == {<<<<"0", "3">>, 3>>, <<<<"0", "2">>, 2>>, <<<<"1", "3">>, 13>>, <<<<"3">>, 3>>}
Dias == {<<<<"1", "5">>, 15>>, <<<<"2", "9">>, 29>>, <<<<"3", "0">>, 30>>, <<<<"5">>, 5>>}

Medianoche == <<"T", "0", "0", ":", "0", "0", ":", "0", "0">>
Sufijos ==
    {<<>>, Medianoche, Medianoche \o <<"Z">>,
     <<" ", "1", "0", ":", "3", "0", ":", "0", "0">>,
     <<"T", "2", "5", ":", "0", "0", ":", "0", "0">>,
     <<"Z">>}

\* the text of year a, month m and day d, followed by suf
TextoFecha(a, m, d, suf) == Str(a[1] \o <<"-">> \o m[1] \o <<"-">> \o d[1] \o suf)

TextosFecha == {TextoFecha(a, m, d, suf) : a \in Anios, m \in Meses, d \in Dias, suf \in Sufijos}

\* JSON values that are not texts: null, numbers, a boolean, lists
NoTextos == {None, IntV(20240315), IntV(0), Bool(TRUE), List(<<>>), List(<<Fecha15>>)}

\* the values of a date field in the records of the three operations
ValoresFecha == {Fecha15, Fecha16T, FechaMala, Str(<<>>), None, IntV(20240315)}

ProcesoConFecha(id, f) ==
    [idProceso |-> id, llaveProceso |-> Str("llave a"), fechaProceso |-> f]
ActuacionConFecha(id, f) ==
    [idRegActuacion |-> id, actuacion |-> Etiqueta("a"), fechaActuacion |-> f]
DocumentoConFecha(id, f) ==
    [idRegDocumento |-> id, nombreDocumento |-> Str("documento a"), fechaDocumento |-> f]

NextFechas ==
    \/ \E date_str \in TextosFecha \cup NoTextos \cup {Str(<<>>), FechaMala} :
           parse_date_call(date_str)
    \/ \E f \in {Fecha15, FechaMala} :
           guardar_proceso(ProcesoConFecha(Str("P1"), f), None, now)

SpecFechas == Init /\ [][NextFechas]_vars

\* Records: the three operations on records whose date field holds each
\* kind of value, and parse_date on these values.
NextRegistros ==
    \/ \E date_str \in ValoresFecha \cup NoTextos : parse_date_call(date_str)
    \/ \E f \in ValoresFecha : guardar_proceso(ProcesoConFecha(Str("P1"), f), None, now)
    \/ \E id \in IdsActuacion, f \in ValoresFecha :
           guardar_actuaciones(Str("P1"), <<ActuacionConFecha(id, f)>>)
    \/ \E f \in ValoresFecha :
           guardar_documentos(Str("A1"), <<DocumentoConFecha(Str("D2"), f)>>)

SpecRegistros == Init /\ [][NextRegistros]_vars

\* the calendar has day d of month m of year a
EnCalendario(a, m, d) ==
    /\ m \in 1..12
    /\ d >= 1
    /\ d <= (IF m \in {1, 3, 5, 7, 8, 10, 12} THEN 31
             ELSE IF m # 2 THEN 30
             ELSE IF a % 4 = 0 /\ (a % 100 # 0 \/ a % 400 = 0) THEN 29 ELSE 28)

\* C13: parse_date gives the date 15 March 2024 for "2024-03-15", for
\* "2024-03-15T00:00:00" and for "2024-03-15T00:00:00Z", and likewise, for
\* every date the calendar has, the same date for the text of the date
\* alone, followed by T00:00:00 and followed by T00:00:00Z; for the empty
\* text and for None it returns None and raises nothing.
C13_MismaFecha ==
    last.op = "parse_date"
    => /\ last.date_str \in {Fecha15, Str(Fecha15.s \o Medianoche),
                             Str(Fecha15.s \o Medianoche \o <<"Z">>)}
             => last.ret = DateTime(2024, 3, 15, 0, 0, 0)
       /\ \A a \in Anios, m \in Meses, d \in Dias,
             suf \in {<<>>, Medianoche, Medianoche \o <<"Z">>} :
             last.date_str = TextoFecha(a, m, d, suf) /\ EnCalendario(a[2], m[2], d[2])
             => last.ret = DateTime(a[2], m[2], d[2], 0, 0, 0)
       /\ last.date_str \in {Str(<<>>), None} => last.ret = None

\* the text 2024-03-15T00:00:00Z has been converted to 15 March 2024
C13_Witness ==
    /\ last.op = "parse_date"
    /\ last.date_str = Str(Fecha15.s \o Medianoche \o <<"Z">>)
    /\ last.ret = DateTime(2024, 3, 15, 0, 0, 0)

\* C14: parse_date raises nothing and returns a date or None for every
\* value of a date field (a well-formed text, a malformed one, the empty
\* text, null, a number or another value that is not a text); and
\* guardar_proceso, guardar_actuaciones and guardar_documentos, given a new
\* record with such a date field under a stored parent, raise nothing and
\* store the record.
C14_FechaNuncaFalla ==
    /\ last.op = "parse_date" => last.ret.kind \in {"datetime", "none"}
    /\ last.op = "guardar_proceso" =>
          /\ ~IsRaised(last.ret)
          /\ Filas(procesos, "id_proceso_api", Get(last.datos_proceso, "idProceso")) # {}
    /\ last.op = "guardar_actuaciones" /\ last.log # "No se encontro el proceso" =>
          /\ ~IsRaised(last.ret)
          /\ \A k \in 1..Len(last.actuaciones) :
                Filas(actuaciones, "id_reg_actuacion",
                      Get(last.actuaciones[k], "idRegActuacion")) # {}
    /\ last.op = "guardar_documentos" /\ last.log # "No se encontro la actuacion" =>
          /\ ~IsRaised(last.ret)
          /\ \A k \in 1..Len(last.documentos) :
                Filas(documentos, "id_reg_documento",
                      Get(last.documentos[k], "idRegDocumento")) # {}

---------------------------------------------------------------------------
(* Searches: the client and the two search handlers *)

UrlRazonSocial ==
    "https://consultaprocesos.ramajudicial.gov.co:448/api/v2/Procesos/Consulta/NombreRazonSocial?nombre=ACME"
Texto400 == "400 Client Error: Bad Request for url: " \o UrlRazonSocial
Texto500 == "500 Server Error: Internal Server Error for url: " \o UrlRazonSocial

\* what the registry says of a query that matches too many records, the
\* same cut short, and another complaint
MensajeMilRegistros ==
    "Hay más de mil registros con los criterios especificados, por favor revise las opciones de búsqueda."
MensajeMilCorto == "Hay más de mil registros, por favor revise las opciones de búsqueda."
MensajeOtro == "El parámetro nombre es obligatorio."

\* requests the registry does not answer with a result
FallosRegistro ==
    {RespuestaError(Texto400, CuerpoJson([Message |-> MensajeMilRegistros])),
     RespuestaError(Texto400, CuerpoJson([Message |-> MensajeMilCorto])),
     RespuestaError(Texto400, CuerpoJson([Message |-> MensajeOtro])),
     RespuestaError(Texto400, CuerpoJson([StatusCode |-> "400"])),
     RespuestaError(Texto500, CuerpoNoJson),
     RespuestaError("400 Client Error: " \o MensajeMilRegistros \o " for url: "
                        \o UrlRazonSocial, CuerpoNoJson),
     SinRespuesta("HTTPSConnectionPool(host='consultaprocesos.ramajudicial.gov.co', port=448): Read timed out. (read timeout=30)"),
     SinRespuesta("('Connection aborted.', ConnectionResetError(104, 'Connection reset by peer'))")}

\* the results of a search; the last one carries a date that is a number
ResultadosBusqueda ==
    {Respuesta2xx([procesos |-> List(<<DatosProceso(Str("P1"), "a", Fecha15)>>)]),
     Respuesta2xx([procesos |-> List(<<[idProceso |-> Str("P2")],
                                       DatosProceso(Str("P1"), "b", IntV(20240315))>>)]),
     Respuesta2xx([tipoConsulta |-> Str("NombreRazonSocial")])}

\* what the registry does with the requests of one call of the client: the
\* request, and for a failing one also the request that would follow it
ColasBusqueda ==
    {<<r>> : r \in FallosRegistro \cup ResultadosBusqueda}
        \cup {<<f, r>> : f \in FallosRegistro, r \in ResultadosBusqueda}

\* the same for the requests of one search of a user
ColasUsuario ==
    {<<r>> : r \in ResultadosBusqueda}
        \cup {<<RespuestaError(Texto400, CuerpoJson([Message |-> MensajeMilRegistros]))>>,
              <<SinRespuesta("Read timed out. (read timeout=30)"),
                Respuesta2xx([procesos |-> List(<<DatosProceso(Str("P1"), "a", Fecha15)>>)])>>}

NextBusqueda ==
    \/ \E cola \in ColasBusqueda : consultar_por_razon_social_call(cola)
    \/ \E nombre \in {Str("ACME"), Str("BETA")}, cola \in ColasUsuario,
          t \in now..MaxClock :
          buscar_razon_social(nombre, Str("jur"), cola, t)
    \/ \E cola \in ColasUsuario, t \in now..MaxClock :
          buscar_radicado(Str("11001310300120200012300"), cola, t)

SpecBusqueda == Init /\ [][NextBusqueda]_vars

\* the texts of an answer that is not a result: the error line, and the
\* Message of a JSON body
TextosDelRegistro(respuesta) ==
    {respuesta.texto} \cup
        (IF respuesta.clase = "http" /\ respuesta.cuerpo.json
            /\ "Message" \in DOMAIN respuesta.cuerpo.d
         THEN {respuesta.cuerpo.d["Message"]} ELSE {})

Dice(respuesta, frase) == \E x \in TextosDelRegistro(respuesta) : Contains(x, frase)

EsErrorGenerico(e) ==
    /\ IsRaised(e) /\ e.exc = "Exception"
    /\ SubSeq(e.msg, 1, 31) = "Error en la consulta a la API: "

\* C15, as stated: a search by name whose upstream error message contains
\* "Hay más de mil registros" raises the too-general error, and every other
\* failure raises the generic error.
C15_Original ==
    (last.op = "consultar_por_razon_social" /\ last.cola[1].clase # "2xx") =>
        IF Dice(last.cola[1], "Hay más de mil registros")
        THEN last.ret = ConsultaDemasiadoGeneral
        ELSE EsErrorGenerico(last.ret)

\* C15, amended: a search by name whose upstream error text contains "Hay
\* más de mil registros con los criterios especificados" raises the
\* too-general error; every other failure, a message that holds only "Hay
\* más de mil registros" included, is raised again as the generic error that
\* the request made, and one request is made in either case.
C15_FraseCompleta ==
    (last.op = "consultar_por_razon_social" /\ last.cola[1].clase # "2xx") =>
        /\ last.peticiones = 1
        /\ IF Dice(last.cola[1], "Hay más de mil registros con los criterios especificados")
           THEN /\ last.ret = ConsultaDemasiadoGeneral
                /\ ~EsErrorGenerico(last.ret)
           ELSE /\ EsErrorGenerico(last.ret)
                /\ last.ret = make_request(last.cola).ret
                /\ \A x \in TextosDelRegistro(last.cola[1]) : Contains(last.ret.msg, x)

C15_Witness ==
    /\ last.op = "consultar_por_razon_social"
    /\ last.cola[1].clase = "http"
    /\ last.cola[1].cuerpo = CuerpoJson([Message |-> MensajeMilRegistros])
    /\ last.ret = ConsultaDemasiadoGeneral

---------------------------------------------------------------------------
\* the positions of a batch whose actionId is not stored and comes again
\* later in the batch
RepetidasSinGuardar(tabla, lista) ==
    {i \in 1..Len(lista) :
        /\ First(tabla, "id_reg_actuacion", Get(lista[i], "idRegActuacion")) = None
        /\ \E j \in (i + 1)..Len(lista) :
              Get(lista[j], "idRegActuacion") = Get(lista[i], "idRegActuacion")}

\* C16: a call of guardar_actuaciones for a stored process returns a list
\* unless the batch holds a new actionId twice; the list is as long as the
\* input, and position i holds the Action row, stored before the call or
\* inserted by it, whose actionId is that of input record i.
C16_PorPosicion ==
    (/\ last'.op = "guardar_actuaciones"
     /\ First(procesos, "id_proceso_api", last'.id_proceso_api) # None)
    => /\ last'.ret.kind = "list" <=>
              RepetidasSinGuardar(actuaciones, last'.actuaciones) = {}
       /\ last'.ret.kind = "list" =>
           /\ Len(last'.ret.xs) = Len(last'.actuaciones)
           /\ \A i \in 1..Len(last'.actuaciones) :
                 /\ last'.ret.xs[i].id_reg_actuacion =
                        Get(last'.actuaciones[i], "idRegActuacion")
                 /\ last'.ret.xs[i].id \in 1..Len(actuaciones')
                 /\ actuaciones'[last'.ret.xs[i].id] = last'.ret.xs[i]
                 /\ last'.ret.xs[i].id <= Len(actuaciones) <=>
                        First(actuaciones, "id_reg_actuacion",
                              Get(last'.actuaciones[i], "idRegActuacion")) # None

C16_MismoOrden == [][C16_PorPosicion]_vars

\* a batch of a new action followed by a stored one has been returned in
\* the order of the batch, which is not the order of the rows
C16_Witness ==
    /\ last.op = "guardar_actuaciones"
    /\ last.ret.kind = "list"
    /\ Len(last.actuaciones) = 2
    /\ Len(last.ret.xs) = 2
    /\ last.ret.xs[1].id_reg_actuacion = Str("A2")
    /\ last.ret.xs[2].id_reg_actuacion = Str("A1")
    /\ last.ret.xs[1].id = 2
    /\ last.ret.xs[2].id = 1

---------------------------------------------------------------------------
(* Calls of guardar_proceso in concurrent workers *)

\* the calls: P1 with and without a party hint, P2 with the same hint;
\* every call reads the same time
LlamadasConcurrentes ==
    {<<DatosProceso(Str("P1"), "a", Fecha15), None>>,
     <<DatosProceso(Str("P1"), "a", Fecha15), DatosEmpresa("ACME", "jur")>>,
     <<[idProceso |-> Str("P2")], DatosEmpresa("ACME", "jur")>>}

NextConcurrente ==
    \/ \E w \in 1..MaxSesiones, c \in LlamadasConcurrentes :
          sesion_consulta(w, c[1], c[2])
    \/ \E w \in DOMAIN sesiones : sesion_actualizar(w, now)
    \/ \E w \in DOMAIN sesiones : sesion_empresa_consulta(w)
    \/ \E w \in DOMAIN sesiones : sesion_empresa_crear(w)
    \/ \E w \in DOMAIN sesiones : sesion_insertar(w, now)

SpecConcurrente == Init /\ [][NextConcurrente]_vars

\* a call that passed the existence check runs its insert when the
\* identifier has been stored in between: it raises, and writes nothing
C17_Perdedor ==
    \A w \in DOMAIN sesiones :
        (/\ sesiones[w].pc = "insertar"
         /\ w \notin DOMAIN sesiones'
         /\ First(procesos, "id_proceso_api",
                  Get(sesiones[w].datos_proceso, "idProceso")) # None)
        => /\ last'.sesion = w
           /\ last'.ret = IntegrityError
           /\ procesos' = procesos

\* C17: when calls of guardar_proceso for a processId that is not stored
\* interleave, no state holds two Process rows with that processId, and a
\* call that passed the existence check and finds the identifier stored at
\* its insert ends in the store's uniqueness error, with no row returned.
C17_Carrera ==
    /\ [](\A i, j \in 1..Len(procesos) :
             procesos[i].id_proceso_api = procesos[j].id_proceso_api => i = j)
    /\ [][C17_Perdedor]_vars

\* two calls for P1 passed the existence check, one has stored the row and
\* the other has just ended in the uniqueness error
C17_Witness ==
    /\ last.op = "guardar_proceso"
    /\ "sesion" \in DOMAIN last
    /\ last.log = "Creando nuevo proceso"
    /\ last.ret = IntegrityError
    /\ Get(last.datos_proceso, "idProceso") = Str("P1")
    /\ Cardinality({i \in 1..Len(procesos) : procesos[i].id_proceso_api = Str("P1")}) = 1

---------------------------------------------------------------------------
\* C18: a call of guardar_proceso with a party hint commits once, so no
\* committed state holds the Party row the call created without the Process
\* row of the call, while the call runs or after its insert failed: every
\* Party row is the party of a stored Process.
C18_UnaTransaccion ==
    \A i \in 1..Len(empresas) :
        \E j \in 1..Len(procesos) : procesos[j].empresa_id = IntV(empresas[i].id)

---------------------------------------------------------------------------
(* Requests: searches, details of a process, documents of an action *)

FalloHttp == RespuestaError(Texto500, CuerpoNoJson)
FalloTiempo == SinRespuesta("Read timed out. (read timeout=30)")

\* the details and the action lists the registry gives for a process; one
\* list names an action twice
DetallesRegistro == {Respuesta2xx(DetalleProceso("a", TRUE)), Respuesta2xx(DetalleCorto)}
ListasRegistro ==
    {Respuesta2xx([actuaciones |-> List(<<DatosActuacion(Str("A1"), "a"),
                                          DatosActuacion(Str("A2"), "b")>>)]),
     Respuesta2xx([actuaciones |-> List(<<DatosActuacion(Str("A1"), "a"),
                                          DatosActuacion(Str("A1"), "b")>>)]),
     Respuesta2xx([actuaciones |-> List(<<>>)])}

\* what the registry does with the requests of one detail request
ColasDetalle ==
    {<<FalloHttp>>,
     <<FalloTiempo, Respuesta2xx(DetalleCorto), Respuesta2xx([actuaciones |-> List(<<>>)])>>,
     <<Respuesta2xx(DetalleCorto), FalloTiempo, Respuesta2xx([actuaciones |-> List(<<>>)])>>}
        \cup {<<d, FalloHttp>> : d \in DetallesRegistro}
        \cup {<<d, a>> : d \in DetallesRegistro, a \in ListasRegistro}
        \cup {<<Respuesta2xx(DetalleNulo), Respuesta2xx([actuaciones |-> List(<<>>)])>>}

\* the same for a request for the documents of an action
ColasDocumentos ==
    {<<FalloHttp>>,
     <<FalloTiempo, Respuesta2xx([documentos |-> List(<<DatosDocumento(Str("ABC123"), "a")>>)])>>,
     <<Respuesta2xx([documentos |-> List(<<DatosDocumento(Str("ABC123"), "a")>>)])>>,
     <<Respuesta2xx([documentos |-> List(<<>>)])>>}

\* the same for a search
ColasSolicitud ==
    {<<FalloHttp>>,
     <<FalloTiempo, Respuesta2xx([procesos |-> List(<<DatosProceso(Str("P1"), "a", Fecha15)>>)])>>,
     <<Respuesta2xx([procesos |-> List(<<DatosProceso(Str("P1"), "a", Fecha15)>>)])>>}

NextSolicitudes ==
    \/ \E cola \in ColasSolicitud, t \in now..MaxClock :
          buscar_razon_social(Str("ACME"), Str("jur"), cola, t)
    \/ \E cola \in ColasSolicitud, t \in now..MaxClock :
          buscar_radicado(Str("11001310300120200012300"), cola, t)
    \/ \E cola \in ColasDetalle : detalle_proceso(Str("P1"), cola)
    \/ \E cola \in ColasDocumentos : detalle_actuacion(Str("A1"), cola)

SpecSolicitudes == Init /\ [][NextSolicitudes]_vars

Manejadores == {"buscar_razon_social", "buscar_radicado", "detalle_proceso",
                "detalle_actuacion"}

\* the fetches a request makes when none fails
Consultas(op) == IF op = "detalle_proceso" THEN 2 ELSE 1

\* the fetch of a request that fails first, 0 when none does
PrimerFallo(call) ==
    IF \E k \in 1..Consultas(call.op) :
           k <= Len(call.cola) /\ call.cola[k].clase # "2xx"
    THEN CHOOSE k \in 1..Consultas(call.op) :
             /\ call.cola[k].clase # "2xx"
             /\ \A j \in 1..(k - 1) : call.cola[j].clase = "2xx"
    ELSE 0

C19_FalloDeConsulta ==
    (last'.op \in Manejadores /\ PrimerFallo(last') > 0)
    => /\ last'.peticiones = PrimerFallo(last')
       /\ last'.plantilla = "error.html"
       /\ IsRaised(last'.error) /\ last'.error.exc = "Exception"
       /\ store' = store

\* C19: a request one of whose registry fetches fails (non-2xx, no answer)
\* makes no request of the registry after the failed one, renders the error
\* page with the error of the fetch, and leaves the four tables as they
\* were; in the detail request this holds for the detail fetch and for the
\* actions fetch.
C19_SinReintento == [][C19_FalloDeConsulta]_vars

\* a detail request for a stored process got a full detail and then an
\* error for the actions: two requests were made and the detail is not stored
C19_Witness ==
    /\ last.op = "detalle_proceso"
    /\ last.cola = <<Respuesta2xx(DetalleProceso("a", TRUE)), FalloHttp>>
    /\ last.plantilla = "error.html"
    /\ last.peticiones = 2
    /\ First(procesos, "id_proceso_api", last.id_proceso) # None
    /\ First(procesos, "id_proceso_api", last.id_proceso).clase_proceso = None

---------------------------------------------------------------------------
\* the classification fields of a stored action
ClasificacionDe(fila) ==
    [nivel_urgencia  |-> fila.nivel_urgencia,
     tipo_actuacion  |-> fila.tipo_actuacion,
     requiere_accion |-> fila.requiere_accion,
     justificacion   |-> fila.justificacion]

\* a detail request for a stored process has rendered the detail page
DetalleServido ==
    /\ last'.op = "detalle_proceso"
    /\ last'.plantilla = "detalle_proceso.html"
    /\ First(procesos, "id_proceso_api", last'.id_proceso) # None

\* the process holds the summary of the fetched detail
ResumenGuardado ==
    First(procesos', "id_proceso_api", last'.id_proceso).resumen_generado =
        generar_resumen_proceso(last'.cola[1].json,
                                lista_de(last'.cola[2].json, "actuaciones"))

\* C20, as stated: when a detail request for a stored process returns the
\* detail page, every action of the fetched list is stored with the
\* classification classify gave it, and the process holds the summary.
C20_PorActuacion ==
    DetalleServido =>
        /\ last'.peticiones = 2
        /\ ResumenGuardado
        /\ \A k \in 1..Len(lista_de(last'.cola[2].json, "actuaciones")) :
              /\ First(actuaciones', "id_reg_actuacion",
                       Get(last'.cola[2].json["actuaciones"].xs[k], "idRegActuacion")) # None
              /\ ClasificacionDe(First(actuaciones', "id_reg_actuacion",
                      Get(last'.cola[2].json["actuaciones"].xs[k], "idRegActuacion")))
                   = clasificar_actuacion_simulada(last'.cola[2].json["actuaciones"].xs[k])

C20_Original == [][C20_PorActuacion]_vars

\* the last record of a list that carries the actionId of record k
UltimaCon(lista, k) ==
    lista[CHOOSE j \in k..Len(lista) :
              /\ Get(lista[j], "idRegActuacion") = Get(lista[k], "idRegActuacion")
              /\ \A i \in (j + 1)..Len(lista) :
                    Get(lista[i], "idRegActuacion") # Get(lista[k], "idRegActuacion")]

C20_PorIdentificador ==
    DetalleServido =>
        /\ last'.peticiones = 2
        /\ ResumenGuardado
        /\ First(procesos', "id_proceso_api", last'.id_proceso) =
              [actualizar_detalle(First(procesos, "id_proceso_api", last'.id_proceso),
                                  last'.cola[1].json)
                  EXCEPT !.resumen_generado =
                      generar_resumen_proceso(last'.cola[1].json, <<>>)]
        /\ \A k \in 1..Len(lista_de(last'.cola[2].json, "actuaciones")) :
              /\ First(actuaciones', "id_reg_actuacion",
                       Get(last'.cola[2].json["actuaciones"].xs[k], "idRegActuacion")) # None
              /\ ClasificacionDe(First(actuaciones', "id_reg_actuacion",
                      Get(last'.cola[2].json["actuaciones"].xs[k], "idRegActuacion")))
                   = clasificar_actuacion_simulada(
                         UltimaCon(last'.cola[2].json["actuaciones"].xs, k))

\* C20, amended: when a detail request for a stored process returns the
\* detail page it has made both fetches, the process holds the fetched
\* detail and the summary, and every actionId of the fetched list is stored
\* with the classification of the last fetched record that carries it (of
\* each record, when the actionIds of the list are distinct).
C20_SecuenciaCompleta == [][C20_PorIdentificador]_vars

\* a detail request for the stored P1 has returned the page: its two
\* actions are stored and classified, and P1 holds the summary
C20_Witness ==
    /\ last.op = "detalle_proceso"
    /\ last.plantilla = "detalle_proceso.html"
    /\ last.cola[1] = Respuesta2xx(DetalleProceso("a", TRUE))
    /\ Len(lista_de(last.cola[2].json, "actuaciones")) = 2
    /\ First(procesos, "id_proceso_api", Str("P1")) # None
    /\ First(procesos, "id_proceso_api", Str("P1")).resumen_generado =
          generar_resumen_proceso(DetalleProceso("a", TRUE), <<>>)
    /\ First(actuaciones, "id_reg_actuacion", Str("A1")) # None
    /\ First(actuaciones, "id_reg_actuacion", Str("A1")).nivel_urgencia = Str("Urgente")
    /\ First(actuaciones, "id_reg_actuacion", Str("A2")) # None
    /\ First(actuaciones, "id_reg_actuacion", Str("A2")).nivel_urgencia = Str("Normal")

---------------------------------------------------------------------------
\* the processes of the response of a search request
ProcesosDe(call) == lista_de(call.cola[1].json, "procesos")

\* a search by name got its response and ended on the error page: the
\* upsert of one of the processes failed
FalloParcial(call) ==
    /\ call.op = "buscar_razon_social"
    /\ call.cola[1].clase = "2xx"
    /\ call.plantilla = "error.html"

\* C21: when a search request failed at the upsert of one of its processes
\* and the same request is made again, the store then holds exactly one
\* Process row for every processId of the response, and no two Party rows
\* of one name.
C21_TrasRepetir ==
    (/\ FalloParcial(last)
     /\ last'.op = "buscar_razon_social"
     /\ last'.nombre = last.nombre /\ last'.cola = last.cola)
    => /\ \A k \in 1..Len(ProcesosDe(last')) :
             Cardinality({i \in 1..Len(procesos') :
                 procesos'[i].id_proceso_api =
                     Get(ProcesosDe(last')[k], "idProceso")}) = 1
       /\ \A i, j \in 1..Len(empresas') :
             empresas'[i].nombre = empresas'[j].nombre => i = j

C21_Idempotente == [][C21_TrasRepetir]_vars

---------------------------------------------------------------------------
(* Summaries *)

\* the actions of a process, most recent first
ActuacionResumen(n) ==
    [idRegActuacion |-> Str("A" \o ToString(n)),
     fechaActuacion |-> Str("2024-03-1" \o ToString(n)),
     actuacion      |-> Str("actuacion " \o ToString(n)),
     anotacion      |-> Str("anotacion " \o ToString(n))]

SeisActuaciones == [n \in 1..6 |-> ActuacionResumen(n)]

\* the stretches of the six actions, and no action
ListasResumen ==
    {SubSeq(SeisActuaciones, i, j) : i \in 1..6, j \in 0..6}

\* details with their name lists, without them, with null lists, and with
\* a list that holds a number
DetallesResumen ==
    {DetalleProceso("a", TRUE) @@ [llaveProceso |-> Str("llave a"),
                                   despacho |-> Str("despacho a")],
     DetalleProceso("b", FALSE),
     DetalleCorto,
     DetalleNulo,
     [llaveProceso |-> Str("llave a"), demandados |-> List(<<Str("uno"), IntV(2)>>)]}

RespuestasResumen == {Str("Resumen del modelo."), Raised("Exception")}

NextResumen ==
    \/ \E d \in DetallesResumen, lista \in ListasResumen :
          generar_resumen_proceso_call(d, lista)
    \/ \E d \in DetallesResumen, lista \in {<<>>, SeisActuaciones},
          r \in RespuestasResumen :
          generar_resumen_proceso_modelo(d, lista, r)

SpecResumen == Init /\ [][NextResumen]_vars

\* the actions a summary is about: the first five of the list
Recientes(lista) == SubSeq(lista, 1, IF Len(lista) > 5 THEN 5 ELSE Len(lista))

EsResumenNarrativo(call) ==
    /\ call.op = "generar_resumen_proceso"
    /\ "respuesta" \notin DOMAIN call
    /\ call.ret.kind = "str"

\* the summary names the date, the label and the annotation of each of the
\* first five actions
C22_Contiene ==
    EsResumenNarrativo(last) =>
        \A k \in 1..Len(Recientes(last.actuaciones)) :
            /\ Contains(last.ret.s, last.actuaciones[k].fechaActuacion.s)
            /\ Contains(last.ret.s, last.actuaciones[k].actuacion.s)
            /\ Contains(last.ret.s, last.actuaciones[k].anotacion.s)

\* two calls with one detail return one summary exactly when their first
\* five actions are the same
C22_Distingue ==
    (/\ EsResumenNarrativo(last) /\ EsResumenNarrativo(last')
     /\ last'.detalle_proceso = last.detalle_proceso)
    => (last'.ret = last.ret <=>
            Recientes(last'.actuaciones) = Recientes(last.actuaciones))

\* C22: the narrative summary contains the date, label and annotation of
\* up to the first 5 actions of the list, so with one detail two lists that
\* differ in these give different summaries and actions after the fifth
\* make no difference.
C22_InterpolaActuaciones == []C22_Contiene /\ [][C22_Distingue]_vars

\* C23: generar_resumen_proceso returns a text under either strategy,
\* whatever the detail record holds and whatever the model call does.
C23_NuncaFalla ==
    last.op = "generar_resumen_proceso" => last.ret.kind = "str"

---------------------------------------------------------------------------
(* The fallback of the external-model classifier *)

\* the reply holds no opening brace, or no closing brace at or after it
SinLlaves(texto) ==
    \/ \A i \in 1..Len(texto) : texto[i] # Abre
    \/ \A i, j \in 1..Len(texto) : (texto[i] = Abre /\ texto[j] = Cierra) => j < i

\* the first opening brace and the last closing brace of a reply
PrimeraAbre(texto) ==
    CHOOSE i \in 1..Len(texto) : texto[i] = Abre /\ \A j \in 1..(i - 1) : texto[j] # Abre
UltimaCierra(texto) ==
    CHOOSE i \in 1..Len(texto) :
        texto[i] = Cierra /\ \A j \in (i + 1)..Len(texto) : texto[j] # Cierra

\* what lies between the braces is not the members of one object
NoEsJson(texto) ==
    /\ ~SinLlaves(texto)
    /\ \E i \in (PrimeraAbre(texto) + 1)..(UltimaCierra(texto) - 1) : texto[i].t # "par"

ConModelo(call) == call.op = "clasificar_actuacion" /\ "respuesta" \in DOMAIN call

\* C24: with the external model classify never raises, and when the model
\* call fails, the reply holds no braces, or the text between the braces is
\* not JSON, it returns exactly the fallback Normal / "No clasificada" /
\* false / "No se pudo determinar automáticamente.".
C24_Fallback ==
    ConModelo(last) =>
        /\ ~IsRaised(last.ret)
        /\ (\/ IsRaised(last.respuesta)
            \/ SinLlaves(last.respuesta.s)
            \/ NoEsJson(last.respuesta.s))
           => last.ret = [nivel_urgencia  |-> Str("Normal"),
                          tipo_actuacion  |-> Str("No clasificada"),
                          requiere_accion |-> Bool(FALSE),
                          justificacion   |-> Str("No se pudo determinar automáticamente.")]

\* a reply with prose between the braces was classified
C24_Witness ==
    /\ ConModelo(last)
    /\ last.respuesta = Str(<<Abre, Prosa, Cierra>>)
    /\ last.ret.tipo_actuacion = Str("No clasificada")

---------------------------------------------------------------------------
(* Referential integrity *)

\* ref is the primary key of a row of table
Referencia(ref, table) ==
    /\ ref.kind = "int"
    /\ \E i \in 1..Len(table) : table[i].id = ref.n

\* C25: in every reachable state each stored action references a stored
\* process, each stored document references a stored action, and the party
\* reference of each process is None or the key of a stored party.
C25_IntegridadReferencial ==
    /\ \A i \in 1..Len(actuaciones) : Referencia(actuaciones[i].proceso_id, procesos)
    /\ \A i \in 1..Len(documentos) : Referencia(documentos[i].actuacion_id, actuaciones)
    /\ \A i \in 1..Len(procesos) :
          procesos[i].empresa_id = None \/ Referencia(procesos[i].empresa_id, empresas)

\* a process with its party, an action and a document are stored, after a
\* batch of documents was saved
C25_Witness ==
    /\ last.op = "guardar_documentos"
    /\ \E i \in 1..Len(procesos) : procesos[i].empresa_id # None
    /\ actuaciones # <<>>
    /\ documentos # <<>>

---------------------------------------------------------------------------
(* A detail request for a process that is not stored *)

\* both fetches of the request were answered and no row holds its process
DetalleSinProceso(call, tabla) ==
    /\ call.op = "detalle_proceso"
    /\ PrimerFallo(call) = 0
    /\ \A i \in 1..Len(tabla) : tabla[i].id_proceso_api # call.id_proceso

C26_Paso ==
    DetalleSinProceso(last', procesos) =>
        /\ store' = store
        /\ last'.plantilla = "detalle_proceso.html"

\* C26: a detail request whose process is not stored leaves the four
\* tables as they were and renders the detail page, not the error page.
C26_NadaEscrito == [][C26_Paso]_vars

---------------------------------------------------------------------------
(* A batch that names a new identifier twice *)

\* two records of lista carry one value of key, and no row of tabla holds
\* that value in column col
RepiteNuevo(lista, key, tabla, col) ==
    \E i, j \in 1..Len(lista) :
        /\ i < j
        /\ Get(lista[i], key) = Get(lista[j], key)
        /\ \A r \in 1..Len(tabla) : tabla[r][col] # Get(lista[i], key)

C27_Paso ==
    /\ (/\ last'.op = "guardar_actuaciones"
        /\ Filas(procesos, "id_proceso_api", last'.id_proceso_api) # {}
        /\ RepiteNuevo(last'.actuaciones, "idRegActuacion",
                       actuaciones, "id_reg_actuacion"))
       => last'.ret = Raised("IntegrityError") /\ store' = store
    /\ (/\ last'.op = "guardar_documentos"
        /\ Filas(actuaciones, "id_reg_actuacion", last'.id_reg_actuacion) # {}
        /\ RepiteNuevo(last'.documentos, "idRegDocumento",
                       documentos, "id_reg_documento"))
       => last'.ret = Raised("IntegrityError") /\ store' = store

\* C27: when a batch for a stored parent names twice an identifier that is
\* not stored, guardar_actuaciones raises IntegrityError at its commit and
\* stores no action of the batch, and guardar_documentos does the same with
\* a repeated document identifier.
C27_TodoONada == [][C27_Paso]_vars

\* a batch that names a new document twice was refused for a stored
\* action, after a batch with a repeated action was refused too
C27_Witness ==
    /\ last.op = "guardar_documentos"
    /\ Len(last.documentos) = 2
    /\ last.ret = Raised("IntegrityError")
    /\ actuaciones # <<>>
    /\ documentos = <<>>

---------------------------------------------------------------------------
(* The last-action date of a stored process *)

\* the payload's last-action date is absent, null, empty or not a date
SinFecha(datos_proceso) ==
    \/ "fechaUltimaActuacion" \notin DOMAIN datos_proceso
    \/ datos_proceso.fechaUltimaActuacion \in {None, Str(<<>>), FechaMala}

\* the date a payload's text stands for, when it is one of the dates
FechaLeida(datos_proceso) ==
    CASE datos_proceso.fechaUltimaActuacion = Fecha15 -> DateTime(2024, 3, 15, 0, 0, 0)
      [] datos_proceso.fechaUltimaActuacion = Fecha16T -> DateTime(2024, 3, 16, 0, 0, 0)

\* the payload's last-action date is a date
ConFecha(datos_proceso) ==
    /\ "fechaUltimaActuacion" \in DOMAIN datos_proceso
    /\ datos_proceso.fechaUltimaActuacion \in {Fecha15, Fecha16T}

C28_Fila(antes, despues, call, t) ==
    /\ ~ConFecha(call.datos_proceso) =>
          /\ despues.fecha_ultima_actuacion = antes.fecha_ultima_actuacion
          /\ IgualSalvo(antes, despues, {"fecha_consulta"})
    /\ SinFecha(call.datos_proceso) => despues.fecha_consulta = t
    /\ ConFecha(call.datos_proceso) =>
          /\ despues.fecha_ultima_actuacion = FechaLeida(call.datos_proceso)
          /\ IgualSalvo(antes, despues, {"fecha_consulta", "fecha_ultima_actuacion"})
    /\ antes.fecha_ultima_actuacion # None => despues.fecha_ultima_actuacion # None

C28_Paso ==
    last'.op = "guardar_proceso" =>
        \A i \in Filas(procesos, "id_proceso_api", Get(last'.datos_proceso, "idProceso")) :
            C28_Fila(procesos[i], procesos'[i], last', now')

\* C28: guardar_proceso on a stored process keeps fecha_ultima_actuacion
\* when the payload's date is absent, null, empty, a text that is not a date
\* or not a text, changing nothing but fecha_consulta (which it sets to the
\* time of the call in the first four cases), replaces it with the payload's
\* date when that parses, and never sets a stored date to None.
C28_FechaConservada == [][C28_Paso]_vars

\* a payload with an empty date has refreshed a process whose date is stored
C28_Witness ==
    /\ last.op = "guardar_proceso"
    /\ last.log = "Actualizando proceso existente"
    /\ last.datos_proceso = DatosProceso(Str("P1"), "b", Str(<<>>))
    /\ \E i \in 1..Len(procesos) :
          /\ procesos[i].fecha_ultima_actuacion = DateTime(2024, 3, 16, 0, 0, 0)
          /\ procesos[i].fecha_consulta = MaxClock

---------------------------------------------------------------------------
(* One party per name *)

\* C29: in every reachable state no two rows of empresas hold the same
\* nombre, also when calls of guardar_proceso with a hint of the same new
\* name and no nit run at once in different workers.
C29_NombreUnico ==
    \A i, j \in 1..Len(empresas) :
        empresas[i].nombre = empresas[j].nombre => i = j

---------------------------------------------------------------------------
(* A hint with an empty nit *)

\* C30: guardar_empresa with a hint whose nit is the empty string raises
\* nothing and leaves exactly one party with the hint's name, whatever
\* parties with other names and an empty nit are stored.
C30_NitVacio ==
    (/\ last.op = "guardar_empresa"
     /\ Get(last.datos_empresa, "nit") = Str(""))
    => /\ ~IsRaised(last.ret)
       /\ Cardinality({i \in 1..Len(empresas) :
              empresas[i].nombre = Get(last.datos_empresa, "nombre")}) = 1

=============================================================================
